---- MODULE Spec2Model ----
(***************************************************************************)
(* A model of the puzzle solutions of chfanghr/aoc-2024: the shared grid   *)
(* toolkit (src/src/grid.rs) and the day solutions built on it.  Every day *)
(* is an independent batch computation, so every day has a specification   *)
(* of its own (SpecGrid, SpecDay12, ...) over one record variable; the     *)
(* variables of the other days stay Idle.                                  *)
(***************************************************************************)
EXTENDS Integers, Sequences, FiniteSets, TLC

VARIABLES gm, d12, d16, d13, d6, d11, d5, d10, d9, d8

vars == <<gm, d12, d16, d13, d6, d11, d5, d10, d9, d8>>

Idle == [pc |-> "idle"]

\* Option<T>
None == [tag |-> "None"]
Some(v) == [tag |-> "Some", value |-> v]
IsSome(x) == x.tag = "Some"

Last(s) == s[Len(s)]
Front(s) == SubSeq(s, 1, Len(s) - 1)

RECURSIVE SumSeq(_)
SumSeq(s) == IF s = <<>> THEN 0 ELSE s[1] + SumSeq(Tail(s))

(***************************************************************************)
(* src/src/grid.rs                                                         *)
(***************************************************************************)

\* usize::MAX, scaled down: indices are 0..UsizeMax, isize is IsizeMin..IsizeMax.
UsizeMax == 15
IsizeMin == -((UsizeMax + 1) \div 2)
IsizeMax == (UsizeMax - 1) \div 2

Position(row_index, col_index) == [row_index |-> row_index, col_index |-> col_index]
Offset(row_offset, col_offset) == [row_offset |-> row_offset, col_offset |-> col_offset]

UP == Offset(-1, 0)
DOWN == Offset(1, 0)
LEFT == Offset(0, -1)
RIGHT == Offset(0, 1)

\* Range<usize>: start..end, and Range::contains
Range(start, end) == [start |-> start, end |-> end]
RangeContains(r, x) == r.start <= x /\ x < r.end

Constraints(row_range, col_range) == [row_range |-> row_range, col_range |-> col_range]

\* GridSize(a, b) is the pair <<a, b>>; size() builds it as (rows, columns)
GridSizeIntoConstraints(grid_size) ==
    Constraints(Range(0, grid_size[1]), Range(0, grid_size[2]))

\* usize::wrapping_add_signed: the sum modulo 2^w
wrapping_add_signed(u, i) == Some((u + i) % (UsizeMax + 1))

\* usize::checked_add_signed: None when the sum leaves 0..=usize::MAX
checked_add_signed(u, i) ==
    LET s == u + i IN IF s < 0 \/ s > UsizeMax THEN None ELSE Some(s)

\* Option::filter with RangeBounds::contains
FilterContains(opt, range) ==
    IF IsSome(opt) /\ RangeContains(range, opt.value) THEN opt ELSE None

checked_add_offset(p, offset, constraints) ==
    LET row_index == FilterContains(checked_add_signed(p.row_index, offset.row_offset),
                                    constraints.row_range)
        col_index == FilterContains(checked_add_signed(p.col_index, offset.col_offset),
                                    constraints.col_range)
    IN  IF ~IsSome(row_index) THEN None
        ELSE IF ~IsSome(col_index) THEN None
        ELSE Some(Position(row_index.value, col_index.value))

unchecked_add(l, r) == Offset(l.row_offset + r.row_offset, l.col_offset + r.col_offset)

\* Grid<T>(Vec<Vec<T>>): a sequence of rows; Rust's index i is TLA+'s i + 1.
fill_with(elm, grid_size) ==
    LET cols == grid_size[1]
        rows == grid_size[2]
    IN  [i \in 1..rows |-> [j \in 1..cols |-> elm]]

size(g) == <<Len(g), IF Len(g) > 0 THEN Len(g[1]) ELSE 0>>

\* Vec::get(row).unwrap().get(col).unwrap() panics exactly when this is false
CellExists(g, position) ==
    /\ position.row_index < Len(g)
    /\ position.col_index < Len(g[position.row_index + 1])

must_get_cell(g, position) == g[position.row_index + 1][position.col_index + 1]

SetCell(g, position, v) ==
    [g EXCEPT ![position.row_index + 1][position.col_index + 1] = v]

\* positions(): row-major, from size()
positions(g) ==
    LET rows == size(g)[1]
        cols == size(g)[2]
    IN  [k \in 1..(rows * cols) |-> Position((k - 1) \div cols, (k - 1) % cols)]

----------------------------------------------------------------------------
(* The grid module's operations, each applied to inputs drawn by Init.     *)
(* fill_with is only ever called with the size() of a parsed grid, and the *)
(* parsers accept no empty grid and no empty row: both numbers are >= 1.   *)

GmMaxFill == 3

GmCoords == {0, 1, 2, UsizeMax - 1, UsizeMax}
GmOffsets == {IsizeMin, -1, 0, 1, IsizeMax}
GmRanges == {Range(s, e) : s \in {0, 1}, e \in {0, 2, UsizeMax}}
GmElms == {"Outside", "Edge"}

GmCalls ==
    {[op |-> "checked_add_offset",
      args |-> [p |-> Position(r, c), offset |-> Offset(dr, dc),
                constraints |-> Constraints(rr, cr)]] :
        r \in GmCoords, c \in GmCoords, dr \in GmOffsets, dc \in GmOffsets,
        rr \in GmRanges, cr \in GmRanges}
    \cup
    {[op |-> "fill_with", args |-> [elm |-> e, grid_size |-> <<a, b>>]] :
        e \in GmElms, a \in 1..GmMaxFill, b \in 1..GmMaxFill}

GmInit ==
    /\ \E call \in GmCalls : gm = [pc |-> "call", op |-> call.op, args |-> call.args, result |-> None]
    /\ d12 = Idle /\ d16 = Idle /\ d13 = Idle /\ d6 = Idle /\ d11 = Idle
    /\ d5 = Idle /\ d10 = Idle /\ d9 = Idle /\ d8 = Idle

GmCheckedAddOffset ==
    /\ gm.pc = "call" /\ gm.op = "checked_add_offset"
    /\ gm' = [gm EXCEPT !.pc = "done",
                        !.result = checked_add_offset(gm.args.p, gm.args.offset, gm.args.constraints)]
    /\ UNCHANGED <<d12, d16, d13, d6, d11, d5, d10, d9, d8>>

GmFillWith ==
    /\ gm.pc = "call" /\ gm.op = "fill_with"
    /\ gm' = [gm EXCEPT !.pc = "done",
                        !.result = Some(fill_with(gm.args.elm, gm.args.grid_size))]
    /\ UNCHANGED <<d12, d16, d13, d6, d11, d5, d10, d9, d8>>

GmNext == GmCheckedAddOffset \/ GmFillWith

SpecGrid == GmInit /\ [][GmNext]_vars

\* C1: checked_add_offset(p, o) is present iff both signed sums lie in their
\* ranges, and then it is exactly the elementwise signed sum; otherwise it is
\* absent, never wrapped or clamped.
C1_CheckedAddOffsetContract ==
    (gm.pc = "done" /\ gm.op = "checked_add_offset") =>
        LET row == gm.args.p.row_index + gm.args.offset.row_offset
            col == gm.args.p.col_index + gm.args.offset.col_offset
            inside == /\ RangeContains(gm.args.constraints.row_range, row)
                      /\ RangeContains(gm.args.constraints.col_range, col)
        IN  /\ IsSome(gm.result) <=> inside
            /\ IsSome(gm.result) => gm.result.value = Position(row, col)
            /\ ~inside => gm.result = None

\* a present result reached with a negative row offset and a row range that
\* does not start at 0
C1_Witness ==
    /\ gm.pc = "done" /\ gm.op = "checked_add_offset"
    /\ IsSome(gm.result)
    /\ gm.args.offset.row_offset < 0 /\ gm.args.offset.col_offset > 0
    /\ gm.args.constraints.row_range.start = 1

\* C2: fill_with(elm, s) has size() = s and every cell equal to elm, for
\* every s = (rows, columns), rows /= columns included.
C2_FillWithHasTheGivenSize ==
    (gm.pc = "done" /\ gm.op = "fill_with") =>
        /\ size(gm.result.value) = gm.args.grid_size
        /\ \A p \in {Position(r, c) : r \in 0..(gm.args.grid_size[1] - 1),
                                      c \in 0..(gm.args.grid_size[2] - 1)} :
              /\ CellExists(gm.result.value, p)
              /\ must_get_cell(gm.result.value, p) = gm.args.elm

(***************************************************************************)
(* src/src/day_12.rs                                                       *)
(***************************************************************************)

D12MaxCells == 9

D12Chars == {"A", "B"}

D12Shapes == {<<r, c>> \in (1..D12MaxCells) \X (1..D12MaxCells) : r * c <= D12MaxCells}

\* what parser::input accepts: at least one row, rows of one length >= 1
D12Grids == UNION {[1..s[1] -> [1..s[2] -> D12Chars]] : s \in D12Shapes}

D12Offsets == <<UP, DOWN, LEFT, RIGHT>>

is_not_in_current_region(position, offset, g) ==
    LET next == checked_add_offset(position, offset, GridSizeIntoConstraints(size(g)))
    IN  IF IsSome(next) THEN must_get_cell(g, next.value) = "Outside" ELSE TRUE

is_corner(edge_position, offset_1, offset_2, g) ==
    /\ is_not_in_current_region(edge_position, offset_1, g)
    /\ \/ is_not_in_current_region(edge_position, offset_2, g)
       \/ ~is_not_in_current_region(edge_position, unchecked_add(offset_1, offset_2), g)

number_of_corners(edge_position, g) ==
    Cardinality({pair \in {<<LEFT, UP>>, <<UP, RIGHT>>, <<RIGHT, DOWN>>, <<DOWN, LEFT>>} :
                    is_corner(edge_position, pair[1], pair[2], g)})

\* the corners of one flood fill: summed over the Edge cells of current_region
D12Corners(current_region) ==
    LET ps == positions(current_region)
    IN  SumSeq([k \in 1..Len(ps) |->
                  IF must_get_cell(current_region, ps[k]) = "Edge"
                  THEN number_of_corners(ps[k], current_region) ELSE 0])

RECURSIVE D12Kept(_, _, _)
D12Kept(opts, g, region_identifier) ==
    IF opts = <<>> THEN <<>>
    ELSE LET rest == D12Kept(Tail(opts), g, region_identifier)
         IN  IF IsSome(opts[1]) /\ must_get_cell(g, opts[1].value) = region_identifier
             THEN <<opts[1].value>> \o rest
             ELSE rest

\* the filter_map of the flood fill: the in-bounds neighbours that hold the
\* region's identifier, in the order of the offsets
D12NeighborPositions(g, grid_size, position, region_identifier) ==
    D12Kept([k \in 1..4 |-> checked_add_offset(position, D12Offsets[k],
                                               GridSizeIntoConstraints(grid_size))],
            g, region_identifier)

D12Init ==
    /\ \E g \in D12Grids :
          d12 = [pc |-> "loop", grid |-> g, grid_size |-> size(g),
                 visited |-> fill_with(FALSE, size(g)),
                 total_price_p_1 |-> 0, total_price_p_2 |-> 0,
                 index |-> 0, region_identifier |-> "A",
                 area |-> 0, perimeter |-> 0,
                 next_positions |-> <<>>, current_region |-> <<>>]
    /\ gm = Idle /\ d16 = Idle /\ d13 = Idle /\ d6 = Idle /\ d11 = Idle
    /\ d5 = Idle /\ d10 = Idle /\ d9 = Idle /\ d8 = Idle

\* for position in grid.positions(): the set-up of one flood fill
D12ForPosition ==
    /\ d12.pc = "loop"
    /\ d12.index < Len(positions(d12.grid))
    /\ LET position == positions(d12.grid)[d12.index + 1]
       IN  d12' = [d12 EXCEPT !.pc = "flood",
                              !.region_identifier = must_get_cell(d12.grid, position),
                              !.area = 0, !.perimeter = 0,
                              !.next_positions = <<position>>,
                              !.current_region = fill_with("Outside", d12.grid_size)]
    /\ UNCHANGED <<gm, d16, d13, d6, d11, d5, d10, d9, d8>>

\* one turn of while let Some(position) = next_positions.pop(); a cell that
\* visited or current_region does not have makes must_get_cell panic
D12Pop ==
    /\ d12.pc = "flood"
    /\ d12.next_positions /= <<>>
    /\ LET position == Last(d12.next_positions)
           popped == Front(d12.next_positions)
           neighbor_positions == D12NeighborPositions(d12.grid, d12.grid_size, position,
                                                      d12.region_identifier)
           number_of_neighbors == Len(neighbor_positions)
       IN  IF ~CellExists(d12.visited, position)
           THEN d12' = [d12 EXCEPT !.pc = "panic", !.next_positions = popped]
           ELSE IF must_get_cell(d12.visited, position)
           THEN d12' = [d12 EXCEPT !.next_positions = popped]
           ELSE IF ~CellExists(d12.current_region, position)
           THEN d12' = [d12 EXCEPT !.pc = "panic", !.next_positions = popped]
           ELSE d12' = [d12 EXCEPT
                          !.area = @ + 1,
                          !.perimeter = @ + 4 - number_of_neighbors,
                          !.next_positions = popped \o neighbor_positions,
                          !.current_region =
                              SetCell(@, position,
                                      IF number_of_neighbors < 4 THEN "Edge" ELSE "Inside"),
                          !.visited = SetCell(@, position, TRUE)]
    /\ UNCHANGED <<gm, d16, d13, d6, d11, d5, d10, d9, d8>>

\* the stack is empty: count the corners and add the region's two prices
D12AddPrice ==
    /\ d12.pc = "flood"
    /\ d12.next_positions = <<>>
    /\ d12' = [d12 EXCEPT
                  !.pc = "loop",
                  !.index = @ + 1,
                  !.total_price_p_1 = @ + d12.area * d12.perimeter,
                  !.total_price_p_2 = @ + d12.area * D12Corners(d12.current_region)]
    /\ UNCHANGED <<gm, d16, d13, d6, d11, d5, d10, d9, d8>>

D12Return ==
    /\ d12.pc = "loop"
    /\ d12.index = Len(positions(d12.grid))
    /\ d12' = [d12 EXCEPT !.pc = "done"]
    /\ UNCHANGED <<gm, d16, d13, d6, d11, d5, d10, d9, d8>>

D12Next == D12ForPosition \/ D12Pop \/ D12AddPrice \/ D12Return

SpecDay12 == D12Init /\ [][D12Next]_vars

D12Uniform == \A r \in 1..Len(d12.grid) : \A c \in 1..Len(d12.grid[r]) :
                  d12.grid[r][c] = d12.grid[1][1]

\* C3: on an R x C grid whose cells all hold one value, R /= C included,
\* calculate_total_price returns (R*C*2(R+C), R*C*4).
C3_UniformGridPrice ==
    (D12Uniform /\ d12.pc \in {"done", "panic"}) =>
        LET R == Len(d12.grid)
            C == Len(d12.grid[1])
        IN  /\ d12.pc = "done"
            /\ d12.total_price_p_1 = R * C * 2 * (R + C)
            /\ d12.total_price_p_2 = R * C * 4

\* the same on square grids only
D12SquareUniformPrice ==
    (D12Uniform /\ Len(d12.grid) = Len(d12.grid[1]) /\ d12.pc \in {"done", "panic"}) =>
        LET R == Len(d12.grid)
        IN  /\ d12.pc = "done"
            /\ d12.total_price_p_1 = R * R * 2 * (R + R)
            /\ d12.total_price_p_2 = R * R * 4

(***************************************************************************)
(* src/src/day_16.rs                                                       *)
(***************************************************************************)

D16MaxWalls == 2

\* up to three rows of up to five columns; the start is drawn from the first
\* column and the end from the last
D16Shapes == {<<r, c>> : r \in 1..3, c \in 2..5}

D16Cells(shape) == {Position(r, c) : r \in 0..(shape[1] - 1), c \in 0..(shape[2] - 1)}

D16GridOf(shape, walls) ==
    [i \in 1..shape[1] |-> [j \in 1..shape[2] |->
        IF Position(i - 1, j - 1) \in walls THEN "Wall" ELSE "Air"]]

\* the sets of at most k cells
RECURSIVE D16WallSets(_, _)
D16WallSets(cells, k) ==
    IF k = 0 THEN {{}}
    ELSE LET fewer == D16WallSets(cells, k - 1)
         IN  fewer \cup {w \cup {c} : w \in fewer, c \in cells}

\* what parser::input builds: a rectangular grid with exactly one starting
\* and one ending cell, both of them Air
D16InputsOf(shape) ==
    UNION {
        {[starting_position |-> st, ending_position |-> en, grid |-> D16GridOf(shape, walls)] :
            st \in {p \in D16Cells(shape) \ walls : p.col_index = 0},
            en \in {p \in D16Cells(shape) \ walls : p.col_index = shape[2] - 1}} :
        walls \in D16WallSets(D16Cells(shape), D16MaxWalls)}

D16Inputs == UNION {D16InputsOf(shape) : shape \in D16Shapes}

\* Offset::dot
dot(l, r) == l.row_offset * r.row_offset + l.col_offset * r.col_offset

turning_penalty(current_direction, next_direction) ==
    CASE dot(current_direction, next_direction) = 0 -> 1000
      [] dot(current_direction, next_direction) = -1 -> 2000
      [] dot(current_direction, next_direction) = 1 -> 0

D16Offsets == <<UP, DOWN, LEFT, RIGHT>>

\* HashMap::get and HashMap::insert on a function whose domain is the keys
MapGet(m, k) == IF k \in DOMAIN m THEN Some(m[k]) ELSE None
MapInsert(m, k, v) == [x \in DOMAIN m \cup {k} |-> IF x = k THEN v ELSE m[x]]

\* as D16Skipped, dropping nothing
D16NeverSkipped(visited, position, score) == FALSE

\* the condition under which a popped state is skipped
D16Skipped(visited, position, score) ==
    /\ IsSome(MapGet(visited, position))
    /\ MapGet(visited, position).value < score

\* as D16Next1, without the Air test
D16Next1ThroughWalls(input, position, current_direction, score, offset) ==
    LET next_position == checked_add_offset(position, offset,
                                            GridSizeIntoConstraints(size(input.grid)))
    IN  IF ~IsSome(next_position) THEN None
        ELSE Some([position |-> next_position.value, direction |-> offset,
                   score |-> score + 1 + turning_penalty(current_direction, offset)])

\* the closure of the filter_map: the state one offset leads to, if any
D16Next1(input, position, current_direction, score, offset) ==
    LET next_position == checked_add_offset(position, offset,
                                            GridSizeIntoConstraints(size(input.grid)))
    IN  IF ~IsSome(next_position) THEN None
        ELSE IF must_get_cell(input.grid, next_position.value) = "Air"
        THEN Some([position |-> next_position.value, direction |-> offset,
                   score |-> score + 1 + turning_penalty(current_direction, offset)])
        ELSE None

RECURSIVE FilterSome(_)
FilterSome(opts) ==
    IF opts = <<>> THEN <<>>
    ELSE (IF IsSome(opts[1]) THEN <<opts[1].value>> ELSE <<>>) \o FilterSome(Tail(opts))

D16Pushed(input, position, current_direction, score) ==
    FilterSome([k \in 1..4 |->
                  D16Next1(input, position, current_direction, score, D16Offsets[k])])

D16Init ==
    /\ \E input \in D16Inputs :
          d16 = [pc |-> "loop", input |-> input,
                 next_positions |-> [k \in 1..4 |->
                     [position |-> input.starting_position,
                      direction |-> D16Offsets[k], score |-> 0]],
                 visited |-> <<>>,
                 result |-> None, answer |-> None]
    /\ gm = Idle /\ d12 = Idle /\ d13 = Idle /\ d6 = Idle /\ d11 = Idle
    /\ d5 = Idle /\ d10 = Idle /\ d9 = Idle /\ d8 = Idle

\* one turn of while let Some(..) = next_positions.pop()
D16Pop ==
    /\ d16.pc = "loop"
    /\ d16.next_positions /= <<>>
    /\ LET top == Last(d16.next_positions)
           popped == Front(d16.next_positions)
       IN  IF D16Skipped(d16.visited, top.position, top.score)
           THEN d16' = [d16 EXCEPT !.next_positions = popped]
           ELSE d16' = [d16 EXCEPT
                          !.visited = MapInsert(@, top.position, top.score),
                          !.next_positions =
                              popped \o D16Pushed(d16.input, top.position,
                                                  top.direction, top.score)]
    /\ UNCHANGED <<gm, d12, d13, d6, d11, d5, d10, d9, d8>>

\* visited.get(&input.ending_position).copied()
D16Return ==
    /\ d16.pc = "loop"
    /\ d16.next_positions = <<>>
    /\ d16' = [d16 EXCEPT !.pc = "returned",
                          !.result = MapGet(d16.visited, d16.input.ending_position)]
    /\ UNCHANGED <<gm, d12, d13, d6, d11, d5, d10, d9, d8>>

\* day_16::solution: .ok_or(anyhow!("unable to reach the ending cell"))?
D16Solution ==
    /\ d16.pc = "returned"
    /\ d16' = [d16 EXCEPT
                  !.pc = "done",
                  !.answer = IF IsSome(d16.result)
                             THEN [tag |-> "Ok", part_1 |-> d16.result.value]
                             ELSE [tag |-> "Err", message |-> "unable to reach the ending cell"]]
    /\ UNCHANGED <<gm, d12, d13, d6, d11, d5, d10, d9, d8>>

D16Next == D16Pop \/ D16Return \/ D16Solution

SpecDay16 == D16Init /\ [][D16Next]_vars

\* The reference the claims compare with: walks through Air cells, by
\* coordinates, without the worklist.
D16Air(input) ==
    {p \in D16Cells(size(input.grid)) : input.grid[p.row_index + 1][p.col_index + 1] = "Air"}

D16Adjacent(p, q) ==
    \/ p.row_index = q.row_index /\ (p.col_index = q.col_index + 1 \/ q.col_index = p.col_index + 1)
    \/ p.col_index = q.col_index /\ (p.row_index = q.row_index + 1 \/ q.row_index = p.row_index + 1)

RECURSIVE D16Closure(_, _)
D16Closure(air, set) ==
    LET more == {q \in air \ set : \E p \in set : D16Adjacent(p, q)}
    IN  IF more = {} THEN set ELSE D16Closure(air, set \cup more)

D16Reachable(input) ==
    input.ending_position \in D16Closure(D16Air(input), {input.starting_position})

D16Dirs == {UP, DOWN, LEFT, RIGHT}

\* 1 per move, 1000 per perpendicular turn, 2000 per reversal
D16MoveCost(from_direction, to_direction) ==
    IF from_direction = to_direction THEN 1
    ELSE IF from_direction = Offset(-to_direction.row_offset, -to_direction.col_offset) THEN 2001
    ELSE 1001

SetMin(S) == CHOOSE x \in S : \A y \in S : x <= y

\* one round of relaxation of the costs of the (cell, direction) states;
\* a cost of -1 stands for a state no walk has reached yet
D16Relax(air, dist) ==
    [st \in DOMAIN dist |->
        LET q == st[1]
            o == st[2]
            p == Position(q.row_index - o.row_offset, q.col_index - o.col_offset)
            via == IF p \in air
                   THEN {dist[<<p, d>>] + D16MoveCost(d, o) : d \in {d \in D16Dirs : dist[<<p, d>>] >= 0}}
                   ELSE {}
            all == via \cup (IF dist[st] >= 0 THEN {dist[st]} ELSE {})
        IN  IF all = {} THEN -1 ELSE SetMin(all)]

RECURSIVE D16Fixpoint(_, _)
D16Fixpoint(air, dist) ==
    LET next == D16Relax(air, dist)
    IN  IF next = dist THEN dist ELSE D16Fixpoint(air, next)

\* the least cost of a walk from the starting cell, in any first direction,
\* to the ending cell, over the (cell, direction) states
D16MinCost(input) ==
    LET air == D16Air(input)
        dist == D16Fixpoint(air, [st \in air \X D16Dirs |->
                                    IF st[1] = input.starting_position THEN 0 ELSE -1])
        ends == {dist[<<input.ending_position, d>>] : d \in D16Dirs} \ {-1}
    IN  IF ends = {} THEN None ELSE Some(SetMin(ends))

\* C4: calaculate_lowest_score returns the least cost over the (cell,
\* direction) states: 1 per move, 1000 per perpendicular turn, 2000 per
\* reversal, at the ending cell in any entry direction.
C4_LowestScoreIsTheMinimum ==
    d16.pc = "done" => d16.result = D16MinCost(d16.input)

\* C7: calaculate_lowest_score returns None exactly when the ending cell is not
\* reachable from the starting cell through Air cells, and solution turns None
\* into the error "unable to reach the ending cell", with no answer.
C7_NoneIffUnreachable ==
    d16.pc = "done" =>
        /\ d16.result = None <=> ~D16Reachable(d16.input)
        /\ IsSome(d16.result) <=> D16Reachable(d16.input)
        /\ d16.result = None =>
              d16.answer = [tag |-> "Err", message |-> "unable to reach the ending cell"]
        /\ IsSome(d16.result) => d16.answer = [tag |-> "Ok", part_1 |-> d16.result.value]

\* an unreachable ending cell, reported as the error
C7_Witness ==
    /\ d16.pc = "done"
    /\ ~D16Reachable(d16.input)
    /\ d16.answer.tag = "Err"

(***************************************************************************)
(* src/src/day_13.rs                                                       *)
(***************************************************************************)

D13MaxMachines == 2

\* total_tokens_needed_part_1's threshold; the costs of a press of A and of B
D13Part1Threshold == 100
D13CostA == 3
D13CostB == 1

\* the numbers of the machines drawn: positive, as in the puzzle's input,
\* but for button A's x offset, which may be 0
D13ButtonOffsets == 1..2
D13ButtonAXOffsets == 0..2
D13PrizeCoords == {2, 3, D13Part1Threshold + 1}

Button(x_offset, y_offset) == [x_offset |-> x_offset, y_offset |-> y_offset]
Prize(x, y) == [x |-> x, y |-> y]

D13Machines ==
    {[button_a |-> Button(xa, ya), button_b |-> Button(xb, yb), prize |-> Prize(px, py)] :
        xa \in D13ButtonAXOffsets, ya \in D13ButtonOffsets,
        xb \in D13ButtonOffsets, yb \in D13ButtonOffsets,
        px \in D13PrizeCoords, py \in D13PrizeCoords}

\* a panic in place of a value
Panic == [tag |-> "Panic"]

\* Rational::new(n, d) panics on d = 0; otherwise the fraction is reduced
\* with a positive denominator, which is 1 exactly when d divides n
full_div(n, d) ==
    IF d = 0 THEN Panic
    ELSE LET num == IF d < 0 THEN -n ELSE n
             den == IF d < 0 THEN -d ELSE d
         IN  IF num % den = 0 THEN Some(num \div den) ELSE None

\* (0..=threshold.unwrap_or(i128::MAX)).contains(&t).then(|| t as u128)
check_and_convert(t, threshold) ==
    IF 0 <= t /\ (IsSome(threshold) => t <= threshold.value) THEN Some(t) ELSE None

press_buttons(m, threshold) ==
    LET b == full_div(m.button_a.y_offset * m.prize.x - m.button_a.x_offset * m.prize.y,
                      m.button_a.y_offset * m.button_b.x_offset
                      - m.button_a.x_offset * m.button_b.y_offset)
    IN  IF ~IsSome(b) THEN b
        ELSE LET a == full_div(m.prize.x - m.button_b.x_offset * b.value, m.button_a.x_offset)
             IN  IF ~IsSome(a) THEN a
                 ELSE IF IsSome(check_and_convert(a.value, threshold))
                         /\ IsSome(check_and_convert(b.value, threshold))
                 THEN Some(<<a.value, b.value>>)
                 ELSE None

tokens_needed(m, threshold) ==
    LET pressed == press_buttons(m, threshold)
    IN  IF ~IsSome(pressed) THEN pressed
        ELSE Some(pressed.value[1] * D13CostA + pressed.value[2] * D13CostB)

\* total_tokens_needed(ms, threshold), the machines of ms drawn one by one.
\* Part 1 passes Some(100); part 2 passes None, and its machines are the
\* parsed ones with 10000000000000 added to the prize.
D13Init ==
    /\ \E threshold \in {Some(D13Part1Threshold), None}, m \in D13Machines :
          d13 = [pc |-> "loop", threshold |-> threshold, index |-> 0, m |-> m,
                 pressed |-> None, tokens |-> None, total |-> 0]
    /\ gm = Idle /\ d12 = Idle /\ d16 = Idle /\ d6 = Idle /\ d11 = Idle
    /\ d5 = Idle /\ d10 = Idle /\ d9 = Idle /\ d8 = Idle

\* filter_map(|m| tokens_needed(m, threshold)) on the next machine, and the
\* sum's addition
D13TokensNeeded ==
    /\ d13.pc = "loop"
    /\ d13.index < D13MaxMachines
    /\ \E m \in (IF d13.index = 0 THEN {d13.m} ELSE D13Machines) :
          LET tokens == tokens_needed(m, d13.threshold)
          IN  d13' = [d13 EXCEPT
                        !.pc = IF tokens = Panic THEN "panic" ELSE "loop",
                        !.index = @ + 1,
                        !.m = m,
                        !.pressed = press_buttons(m, d13.threshold),
                        !.tokens = tokens,
                        !.total = IF IsSome(tokens) THEN @ + tokens.value ELSE @]
    /\ UNCHANGED <<gm, d12, d16, d6, d11, d5, d10, d9, d8>>

D13Return ==
    /\ d13.pc = "loop"
    /\ d13.index >= 1
    /\ d13' = [d13 EXCEPT !.pc = "done"]
    /\ UNCHANGED <<gm, d12, d16, d6, d11, d5, d10, d9, d8>>

D13Next == D13TokensNeeded \/ D13Return

SpecDay13 == D13Init /\ [][D13Next]_vars

\* the pairs (a, b) of press counts in the allowed range that solve both
\* equations; every button moves the claw by at least 1 along y, so that no
\* solution has a press count above the largest prize coordinate
D13SearchMax == D13Part1Threshold + 1

D13Solutions(m, threshold) ==
    {ab \in (0..(IF IsSome(threshold) THEN threshold.value ELSE D13SearchMax))
            \X (0..(IF IsSome(threshold) THEN threshold.value ELSE D13SearchMax)) :
        /\ ab[1] * m.button_a.x_offset + ab[2] * m.button_b.x_offset = m.prize.x
        /\ ab[1] * m.button_a.y_offset + ab[2] * m.button_b.y_offset = m.prize.y}

D13Called == d13.index >= 1 /\ d13.pc \in {"loop", "panic"}

\* C5: press_buttons returns (a, b) exactly when the system has an integer
\* solution with a and b in the allowed range, (a, b) solves both equations,
\* tokens_needed is then 3a + b, and a machine without such a solution
\* contributes nothing.
C5_PressButtonsSolvesTheSystem ==
    D13Called =>
        /\ IsSome(d13.pressed) <=> D13Solutions(d13.m, d13.threshold) /= {}
        /\ IsSome(d13.pressed) =>
              /\ d13.pressed.value \in D13Solutions(d13.m, d13.threshold)
              /\ d13.tokens = Some(3 * d13.pressed.value[1] + d13.pressed.value[2])
        /\ D13Solutions(d13.m, d13.threshold) = {} => d13.tokens = None

\* C6: press_buttons returns a pair or None for every machine, a zero
\* determinant or a zero x offset of button A included, and never aborts.
C6_PressButtonsNeverAborts ==
    D13Called =>
        /\ d13.pc /= "panic"
        /\ d13.pressed = None \/ IsSome(d13.pressed)

\* what does hold: a machine on which no denominator is zero
D13NoZeroDenominator ==
    (D13Called /\ d13.m.button_a.x_offset /= 0
               /\ d13.m.button_a.y_offset * d13.m.button_b.x_offset
                  /= d13.m.button_a.x_offset * d13.m.button_b.y_offset) =>
        /\ d13.pc /= "panic"
        /\ IsSome(d13.pressed) <=> D13Solutions(d13.m, d13.threshold) /= {}
        /\ IsSome(d13.pressed) =>
              /\ d13.pressed.value \in D13Solutions(d13.m, d13.threshold)
              /\ d13.tokens = Some(3 * d13.pressed.value[1] + d13.pressed.value[2])

(***************************************************************************)
(* src/src/day_6.rs                                                        *)
(***************************************************************************)

D6MaxObstructions == 4

\* maps of up to three rows of up to three columns
D6Shapes == {<<r, c>> : r \in 1..3, c \in 1..3}

D6Cells(shape) == {Position(r, c) : r \in 0..(shape[1] - 1), c \in 0..(shape[2] - 1)}

RECURSIVE D6ObstructionSets(_, _)
D6ObstructionSets(cells, k) ==
    IF k = 0 THEN {{}}
    ELSE LET fewer == D6ObstructionSets(cells, k - 1)
         IN  fewer \cup {w \cup {c} : w \in fewer, c \in cells}

D6MapOf(shape, obstructions) ==
    [i \in 1..shape[1] |-> [j \in 1..shape[2] |->
        IF Position(i - 1, j - 1) \in obstructions THEN "Obstruction" ELSE "Empty"]]

D6Directions == {"Up", "Right", "Down", "Left"}

\* The Input move_guard_while_detecting_looping is given: a parsed map, or
\* one with an obstruction added, which may lie on the guard's own cell.
D6InputsOf(shape) ==
    {[guard_initial_direction |-> dir, guard_initial_position |-> pos,
      map |-> D6MapOf(shape, obstructions)] :
        dir \in D6Directions, pos \in D6Cells(shape),
        obstructions \in D6ObstructionSets(D6Cells(shape), D6MaxObstructions)}

D6Inputs == UNION {D6InputsOf(shape) : shape \in D6Shapes}

\* Direction::next
DirectionNext(direction) ==
    CASE direction = "Up" -> "Right"
      [] direction = "Right" -> "Down"
      [] direction = "Down" -> "Left"
      [] direction = "Left" -> "Up"

\* Position::advance, on i64 fields: -1 is a value
PositionAdvance(position, at_direction) ==
    CASE at_direction = "Up" -> Position(position.row_index - 1, position.col_index)
      [] at_direction = "Right" -> Position(position.row_index, position.col_index + 1)
      [] at_direction = "Down" -> Position(position.row_index + 1, position.col_index)
      [] at_direction = "Left" -> Position(position.row_index, position.col_index - 1)

\* Position::grab_cell: usize::try_from fails below 0, Vec::get beyond the end
grab_cell(position, map) ==
    IF position.row_index < 0 \/ position.col_index < 0 THEN None
    ELSE IF position.row_index >= Len(map) THEN None
    ELSE IF position.col_index >= Len(map[position.row_index + 1]) THEN None
    ELSE Some(map[position.row_index + 1][position.col_index + 1])

check_validity(position, map) ==
    LET cell == grab_cell(position, map)
    IN  IF IsSome(cell)
        THEN (IF cell.value = "Obstruction" THEN "InObstruction" ELSE "Valid")
        ELSE "OutOfBound"

GuardState(direction, current_position) ==
    [direction |-> direction, current_position |-> current_position]

\* GuardState::advance
GuardStateAdvance(guard_state, map) ==
    LET next_position == PositionAdvance(guard_state.current_position, guard_state.direction)
        validity == check_validity(next_position, map)
    IN  CASE validity = "Valid" -> Some(GuardState(guard_state.direction, next_position))
          [] validity = "InObstruction" ->
                Some(GuardState(DirectionNext(guard_state.direction), guard_state.current_position))
          [] validity = "OutOfBound" -> None

\* as D6Contains, comparing the positions only
D6ContainsPosition(unique_guard_states, guard_state) ==
    \E seen \in unique_guard_states : seen.current_position = guard_state.current_position

\* unique_guard_states.contains(&guard_state)
D6Contains(unique_guard_states, guard_state) == guard_state \in unique_guard_states

D6Init ==
    /\ \E input \in D6Inputs :
          d6 = [pc |-> "loop", input |-> input,
                unique_guard_states |-> {},
                guard_state |-> GuardState(input.guard_initial_direction,
                                           input.guard_initial_position),
                result |-> FALSE]
    /\ gm = Idle /\ d12 = Idle /\ d16 = Idle /\ d13 = Idle /\ d11 = Idle
    /\ d5 = Idle /\ d10 = Idle /\ d9 = Idle /\ d8 = Idle

\* one turn of the loop of move_guard_while_detecting_looping
D6LoopTurn ==
    /\ d6.pc = "loop"
    /\ LET next_guard_state == GuardStateAdvance(d6.guard_state, d6.input.map)
       IN  IF D6Contains(d6.unique_guard_states, d6.guard_state)
           THEN d6' = [d6 EXCEPT !.pc = "done", !.result = TRUE]
           ELSE IF IsSome(next_guard_state)
           THEN d6' = [d6 EXCEPT !.unique_guard_states = @ \cup {d6.guard_state},
                                 !.guard_state = next_guard_state.value]
           ELSE d6' = [d6 EXCEPT !.unique_guard_states = @ \cup {d6.guard_state},
                                 !.pc = "done", !.result = FALSE]
    /\ UNCHANGED <<gm, d12, d16, d13, d11, d5, d10, d9, d8>>

D6Next == D6LoopTurn

SpecDay6 == D6Init /\ [][D6Next]_vars

\* the loop is sequential code: it keeps taking turns while it can
FairSpecDay6 == SpecDay6 /\ WF_vars(D6Next)

\* The guard's walk by itself: the states after 0, 1, 2, ... advances, up to
\* the first advance that leaves the grid, or for n advances.
RECURSIVE D6Walk(_, _, _)
D6Walk(guard_state, map, n) ==
    LET next == GuardStateAdvance(guard_state, map)
    IN  IF n = 0 \/ ~IsSome(next) THEN <<guard_state>>
        ELSE <<guard_state>> \o D6Walk(next.value, map, n - 1)

\* more advances than there are (position, direction) states
D6WalkOf(input) ==
    D6Walk(GuardState(input.guard_initial_direction, input.guard_initial_position),
           input.map, 4 * Len(input.map) * Len(input.map[1]))

D6WalkLeaves(input) == ~IsSome(GuardStateAdvance(Last(D6WalkOf(input)), input.map))

D6WalkRevisits(input) ==
    \E i \in 1..Len(D6WalkOf(input)) : \E j \in (i + 1)..Len(D6WalkOf(input)) :
        D6WalkOf(input)[i] = D6WalkOf(input)[j]

\* C8: move_guard_while_detecting_looping terminates on every map and guard
\* start; it returns true iff the walk revisits a (position, direction) state,
\* and false iff the guard steps outside the grid.
C8_LoopDetection ==
    /\ <>(d6.pc = "done")
    /\ [](d6.pc = "done" =>
            /\ d6.result <=> D6WalkRevisits(d6.input)
            /\ ~d6.result <=> D6WalkLeaves(d6.input)
            /\ D6WalkRevisits(d6.input) <=> ~D6WalkLeaves(d6.input))

\* a loop found after the guard has turned on a cell and moved on
C8_Witness ==
    /\ d6.pc = "done"
    /\ d6.result
    /\ Cardinality(d6.unique_guard_states) >= 4

\* a walk that leaves the grid after a turn
C8_WitnessLeaves ==
    /\ d6.pc = "done"
    /\ ~d6.result
    /\ Cardinality({st.direction : st \in d6.unique_guard_states}) >= 2

(***************************************************************************)
(* src/src/day_11.rs                                                       *)
(***************************************************************************)

\* the width of u64, scaled down so that every value and every intermediate
\* product is an integer TLC can hold; like u64::MAX, the largest value has an
\* even count of decimal digits
U64Bits == 24

D11MaxLen == 3
D11MaxBlinks == 3

D11Multiplier == 2024

U64Max == 2^U64Bits - 1

\* a * b modulo 2^U64Bits; the product is taken on the halves of a and of b,
\* so that no intermediate value exceeds what TLC's integers hold
wrapping_mul(a, b) ==
    LET half == 2^(U64Bits \div 2)
        high == ((a \div half) * (b \div half)) % ((U64Max + 1) \div (half * half))
        middle == ((a \div half) * (b % half) + (a % half) * (b \div half))
                      % ((U64Max + 1) \div half)
        low == (a % half) * (b % half)
    IN  (high * half * half + middle * half + low) % (U64Max + 1)

\* a * b on u64: an overflow aborts when the build checks overflows and
\* wraps when it does not
u64_mul(a, b, overflow_checks) ==
    IF b # 0 /\ a > U64Max \div b
    THEN (IF overflow_checks THEN Panic ELSE Some(wrapping_mul(a, b)))
    ELSE Some(a * b)

\* 10^exp modulo 2^U64Bits; TLC's integers hold the powers up to 10^9
RECURSIVE wrapping_pow10(_)
wrapping_pow10(exp) ==
    IF exp <= 9 THEN 10^exp % (U64Max + 1)
    ELSE wrapping_mul(10^9 % (U64Max + 1), wrapping_pow10(exp - 9))

\* 10u64.pow(exp): an overflow aborts or wraps, as in u64_mul
u64_pow10(exp, overflow_checks) ==
    IF exp <= 9 /\ 10^exp <= U64Max THEN Some(10^exp)
    ELSE IF overflow_checks THEN Panic
    ELSE Some(wrapping_pow10(exp))

\* the while loop of next_nums: digits ends at the first value, from 1 up,
\* at which num / 10u64.pow(digits) is 0; an overflowing power or a division
\* by zero aborts the loop.  The power of U64Bits is a multiple of
\* 2^U64Bits, so the loop ends there at the latest.
D11LoopEndsAt(num, digits, overflow_checks) ==
    LET power == u64_pow10(digits, overflow_checks)
    IN  \/ ~IsSome(power)
        \/ power.value = 0
        \/ num \div power.value = 0

D11CountDigits(num, overflow_checks) ==
    LET digits == CHOOSE digits \in 1..U64Bits :
                      /\ D11LoopEndsAt(num, digits, overflow_checks)
                      /\ \A fewer \in 1..(digits - 1) :
                            ~D11LoopEndsAt(num, fewer, overflow_checks)
        power == u64_pow10(digits, overflow_checks)
    IN  IF ~IsSome(power) \/ power.value = 0 THEN Panic ELSE Some(digits)

next_nums(num, overflow_checks) ==
    LET digits == D11CountDigits(num, overflow_checks)
    IN  IF ~IsSome(digits) THEN Panic
        ELSE IF num = 0 THEN Some(<<1>>)
        ELSE IF digits.value % 2 = 0
        THEN LET d == u64_pow10(digits.value \div 2, overflow_checks)
             IN  IF ~IsSome(d) \/ d.value = 0 THEN Panic
                 ELSE Some(<<num \div d.value, num % d.value>>)
        ELSE LET product == u64_mul(num, D11Multiplier, overflow_checks)
             IN  IF IsSome(product) THEN Some(<<product.value>>) ELSE Panic

\* as D11MemoGet, taking the count of num at whichever depth has one
D11MemoGetAtAnyDepth(memo, depth, num) ==
    IF \E other \in DOMAIN memo : num \in DOMAIN memo[other]
    THEN Some(memo[CHOOSE other \in DOMAIN memo : num \in DOMAIN memo[other]][num])
    ELSE None

\* memo.get(&depth).and_then(|memo_at_depth| memo_at_depth.get(&num))
D11MemoGet(memo, depth, num) ==
    IF depth \in DOMAIN memo THEN MapGet(memo[depth], num) ELSE None

\* as D11MemoInsert, with the entry one depth too deep
D11MemoInsertBelow(memo, depth, num, count) ==
    MapInsert(memo, depth + 1,
              MapInsert(IF depth + 1 \in DOMAIN memo THEN memo[depth + 1] ELSE <<>>, num, count))

\* memo.entry(depth).or_default().entry(num).insert_entry(count)
D11MemoInsert(memo, depth, num, count) ==
    MapInsert(memo, depth,
              MapInsert(IF depth \in DOMAIN memo THEN memo[depth] ELSE <<>>, num, count))

\* blink_num_n_times: the count, or Panic, and the memo it leaves behind.
\* D11SumBlinks is its .map(...).sum() over the successors, in order.
RECURSIVE blink_num_n_times(_, _, _, _), D11SumBlinks(_, _, _, _)
blink_num_n_times(num, memo, depth, overflow_checks) ==
    IF depth = 0 THEN [count |-> Some(1), memo |-> memo]
    ELSE IF IsSome(D11MemoGet(memo, depth, num))
    THEN [count |-> D11MemoGet(memo, depth, num), memo |-> memo]
    ELSE LET next == next_nums(num, overflow_checks)
         IN  IF ~IsSome(next) THEN [count |-> Panic, memo |-> memo]
             ELSE LET sum == D11SumBlinks(next.value, memo, depth - 1, overflow_checks)
                  IN  IF ~IsSome(sum.count) THEN sum
                      ELSE [count |-> sum.count,
                            memo |-> D11MemoInsert(sum.memo, depth, num, sum.count.value)]

D11SumBlinks(nums, memo, depth, overflow_checks) ==
    IF nums = <<>> THEN [count |-> Some(0), memo |-> memo]
    ELSE LET first == blink_num_n_times(Head(nums), memo, depth, overflow_checks)
         IN  IF ~IsSome(first.count) THEN first
             ELSE LET rest == D11SumBlinks(Tail(nums), first.memo, depth, overflow_checks)
                  IN  IF ~IsSome(rest.count) THEN rest
                      ELSE [count |-> Some(first.count.value + rest.count.value),
                            memo |-> rest.memo]

\* blink_n_times as a whole
blink_n_times(nums, n, overflow_checks) == D11SumBlinks(nums, <<>>, n, overflow_checks).count

\* numbers of every kind: 0, even counts of digits (one with a right half of
\* zeros), a number whose product exceeds u64, and the largest number, whose
\* power of ten exceeds u64
D11Nums == {0, 20, 1000, 99999, U64Max}

D11NumsLists == UNION {[1..len -> D11Nums] : len \in 1..D11MaxLen}

D11Init ==
    /\ \E nums \in D11NumsLists, n \in 0..D11MaxBlinks, overflow_checks \in BOOLEAN :
          d11 = [pc |-> "blink", nums |-> nums, n |-> n,
                 overflow_checks |-> overflow_checks,
                 index |-> 0, memo |-> <<>>, sum |-> 0, result |-> None]
    /\ gm = Idle /\ d12 = Idle /\ d16 = Idle /\ d13 = Idle /\ d6 = Idle
    /\ d5 = Idle /\ d10 = Idle /\ d9 = Idle /\ d8 = Idle

\* one item of nums.iter().map(...).sum() in blink_n_times
D11BlinkNum ==
    /\ d11.pc = "blink"
    /\ d11.index < Len(d11.nums)
    /\ LET blinked == blink_num_n_times(d11.nums[d11.index + 1], d11.memo, d11.n,
                                        d11.overflow_checks)
       IN  IF IsSome(blinked.count)
           THEN d11' = [d11 EXCEPT !.index = @ + 1, !.memo = blinked.memo,
                                   !.sum = @ + blinked.count.value]
           ELSE d11' = [d11 EXCEPT !.index = @ + 1, !.memo = blinked.memo,
                                   !.pc = "panic", !.result = Panic]
    /\ UNCHANGED <<gm, d12, d16, d13, d6, d5, d10, d9, d8>>

D11Return ==
    /\ d11.pc = "blink"
    /\ d11.index = Len(d11.nums)
    /\ d11' = [d11 EXCEPT !.pc = "done", !.result = Some(d11.sum)]
    /\ UNCHANGED <<gm, d12, d16, d13, d6, d5, d10, d9, d8>>

D11Next == D11BlinkNum \/ D11Return

SpecDay11 == D11Init /\ [][D11Next]_vars

D11Finished == d11.pc \in {"done", "panic"}

D11Permutations(nums) ==
    {[i \in 1..Len(nums) |-> nums[order[i]]] :
        order \in {f \in [1..Len(nums) -> 1..Len(nums)] :
                      \A i, j \in 1..Len(nums) : f[i] = f[j] => i = j}}

\* the sum over nums of the count each number gives with a fresh memo
RECURSIVE D11FreshSum(_, _, _)
D11FreshSum(nums, n, overflow_checks) ==
    IF nums = <<>> THEN Some(0)
    ELSE LET first == blink_num_n_times(Head(nums), <<>>, n, overflow_checks).count
             rest == D11FreshSum(Tail(nums), n, overflow_checks)
         IN  IF IsSome(first) /\ IsSome(rest)
             THEN Some(first.value + rest.value)
             ELSE Panic

\* C9: blink_n_times(nums, n) returns the same value for every permutation
\* of nums, and that value is the sum over nums of the count each number
\* gives with a fresh memo.
C9_PermutationInvariant ==
    D11Finished =>
        /\ \A permuted \in D11Permutations(d11.nums) :
              blink_n_times(permuted, d11.n, d11.overflow_checks) = d11.result
        /\ d11.result = D11FreshSum(d11.nums, d11.n, d11.overflow_checks)

\* the (depth, number) pairs blink_num_n_times leaves in a fresh memo
D11FreshMemoKeys(num, n, overflow_checks) ==
    LET memo == blink_num_n_times(num, <<>>, n, overflow_checks).memo
    IN  UNION {{<<depth, key>> : key \in DOMAIN memo[depth]} : depth \in DOMAIN memo}

\* blink_n_times has returned for three numbers, two of them different
\* numbers that expand to a common (depth, number) pair, so that which of
\* them fills the memo depends on the order
C9_Witness ==
    /\ d11.pc = "done"
    /\ Len(d11.nums) = 3
    /\ \E i, j \in 1..Len(d11.nums) :
          /\ d11.nums[i] # d11.nums[j]
          /\ D11FreshMemoKeys(d11.nums[i], d11.n, d11.overflow_checks) \cap
             D11FreshMemoKeys(d11.nums[j], d11.n, d11.overflow_checks) # {}

\* the decimal digits of num, most significant first
RECURSIVE D11DecimalDigits(_)
D11DecimalDigits(num) ==
    IF num < 10 THEN <<num>> ELSE Append(D11DecimalDigits(num \div 10), num % 10)

\* the number a sequence of decimal digits writes, leading zeros dropped
RECURSIVE D11FromDigits(_)
D11FromDigits(ds) ==
    IF ds = <<>> THEN 0 ELSE 10 * D11FromDigits(Front(ds)) + Last(ds)

\* the expansion rule, stated on the decimal digits of num
D11FollowsTheRule(num, successors) ==
    LET ds == D11DecimalDigits(num)
        half == Len(ds) \div 2
    IN  /\ IsSome(successors)
        /\ Len(successors.value) \in {1, 2}
        /\ IF num = 0 THEN successors.value = <<1>>
           ELSE IF Len(ds) % 2 = 0
           THEN successors.value = <<D11FromDigits(SubSeq(ds, 1, half)),
                                     D11FromDigits(SubSeq(ds, half + 1, Len(ds)))>>
           ELSE /\ Len(successors.value) = 1
                /\ successors.value[1] \div D11Multiplier = num
                /\ successors.value[1] % D11Multiplier = 0

\* the numbers blink_n_times has expanded so far
D11Expanded ==
    IF d11.n = 0 THEN {}
    ELSE {d11.nums[i] : i \in 1..d11.index}
         \cup UNION {DOMAIN d11.memo[depth] : depth \in DOMAIN d11.memo}

\* C10: next_nums gives 0 the single successor 1, a number with an even
\* count of decimal digits its left and right halves, every other number the
\* single successor num*2024; every number has one or two successors, and
\* blink_n_times([0], 1) = 1.
C10_NextNumsRule ==
    /\ \A num \in D11Expanded :
          D11FollowsTheRule(num, next_nums(num, d11.overflow_checks))
    /\ (D11Finished /\ d11.nums = <<0>> /\ d11.n = 1) => d11.result = Some(1)

\* u64 holds 10 to the count of digits of num, and num * 2024
D11WithinU64(num) ==
    /\ num <= U64Max \div D11Multiplier
    /\ IsSome(u64_pow10(Len(D11DecimalDigits(num)), TRUE))

\* next_nums follows the rule on every number it can expand within u64
D11RuleWithinU64 ==
    /\ \A num \in D11Expanded :
          D11WithinU64(num) =>
              D11FollowsTheRule(num, next_nums(num, d11.overflow_checks))
    /\ (D11Finished /\ d11.nums = <<0>> /\ d11.n = 1) => d11.result = Some(1)

(***************************************************************************)
(* src/src/day_5.rs                                                        *)
(***************************************************************************)

D5MaxRules == 3

D5Pages == 1..3

\* page_ordering_rules; make_disallowed_in_suffix_map and Graph::with_edges
\* fold the list into maps of sets, so the rules are kept as a set of (l, r)
RECURSIVE D5RuleSets(_)
D5RuleSets(k) ==
    IF k = 0 THEN {{}}
    ELSE D5RuleSets(k - 1) \cup
         {rules \cup {rule} : rules \in D5RuleSets(k - 1), rule \in D5Pages \X D5Pages}

\* an update: one to three pages, none of them twice
D5Updates ==
    {update \in UNION {[1..len -> D5Pages] : len \in 1..3} :
        \A i, j \in DOMAIN update : update[i] = update[j] => i = j}

\* one or two updates
D5UpdateLists == UNION {[1..len -> D5Updates] : len \in 1..2}

make_disallowed_in_suffix_map(page_ordering_rules) ==
    [r \in {rule[2] : rule \in page_ordering_rules} |->
        {rule[1] : rule \in {x \in page_ordering_rules : x[2] = r}}]

\* the for loop of is_valid_update, from the page at index i on
RECURSIVE D5IsValidFrom(_, _, _, _)
D5IsValidFrom(disallowed_in_suffix_map, update, i, all_disallowed) ==
    IF i > Len(update) THEN TRUE
    ELSE IF update[i] \in all_disallowed THEN FALSE
    ELSE D5IsValidFrom(disallowed_in_suffix_map, update, i + 1,
             IF update[i] \in DOMAIN disallowed_in_suffix_map
             THEN all_disallowed \cup disallowed_in_suffix_map[update[i]]
             ELSE all_disallowed)

is_valid_update(disallowed_in_suffix_map, update) ==
    D5IsValidFrom(disallowed_in_suffix_map, update, 1, {})

\* update[update.len() / 2], on a sequence that starts at index 1
middle_page_number(update) == update[Len(update) \div 2 + 1]

\* Graph::with_edges: add_edge gives both ends an entry in edges
with_edges(edges) ==
    [edges |-> [src \in {e[1] : e \in edges} \cup {e[2] : e \in edges} |->
                   {e[2] : e \in {x \in edges : x[1] = src}}]]

has_edge(graph, src, dest) ==
    IF src \in DOMAIN graph.edges THEN dest \in graph.edges[src] ELSE FALSE

vertices(graph) == DOMAIN graph.edges

subgraph_with_vertices_subset(graph, vertices_subset) ==
    [graph |-> graph, vertices_subset |-> vertices_subset \cap vertices(graph)]

\* as D5DestVertices, finding no edge to follow
D5NoDestVertices(subgraph, vertex) == {}

\* as D5DestVertices, without the filter
D5AllDestVertices(subgraph, vertex) ==
    IF vertex \in DOMAIN subgraph.graph.edges
    THEN subgraph.graph.edges[vertex]
    ELSE {}

\* the vertices visit goes on to from vertex: its edges, filtered by
\* vertices_subset
D5DestVertices(subgraph, vertex) ==
    IF vertex \in DOMAIN subgraph.graph.edges
    THEN subgraph.graph.edges[vertex] \cap subgraph.vertices_subset
    ELSE {}

\* a call of visit that is iterating over its dest_vertices
D5Frame(subgraph, vertex) ==
    [vertex |-> vertex, dest_vertices |-> D5DestVertices(subgraph, vertex)]

RECURSIVE D5Reverse(_)
D5Reverse(t) == IF t = <<>> THEN <<>> ELSE Append(D5Reverse(Tail(t)), Head(t))

\* as D5AllPairsHaveEdges, looking at the first pair only
D5FirstPairHasEdge(graph, t) ==
    Len(t) >= 2 => has_edge(graph, t[1], t[2])

\* as D5AllPairsHaveEdges, looking at no pair
D5NoPairChecked(graph, t) == TRUE

\* t.iter().zip(t.iter().skip(1)).all(|(src, dest)| has_edge(src, dest))
D5AllPairsHaveEdges(graph, t) ==
    \A i \in 1..(Len(t) - 1) : has_edge(graph, t[i], t[i + 1])

D5Init ==
    /\ \E page_ordering_rules \in D5RuleSets(D5MaxRules) \ {{}},
          updates \in D5UpdateLists,
          entry \in {"part_2", "fix_update"} :
          /\ entry = "fix_update" => Len(updates) = 1
          /\ d5 = [pc |-> "update", entry |-> entry,
                   input |-> [page_ordering_rules |-> page_ordering_rules,
                              updates |-> updates],
                   index |-> 0, sum |-> 0,
                   subgraph |-> None, result |-> <<>>, marked_vertices |-> {},
                   tmp_marks_vertices |-> {}, stack |-> <<>>,
                   sorted |-> None, fixed |-> None,
                   answer |-> None, error |-> None]
    /\ gm = Idle /\ d12 = Idle /\ d16 = Idle /\ d13 = Idle /\ d6 = Idle /\ d11 = Idle
    /\ d10 = Idle /\ d9 = Idle /\ d8 = Idle

D5Update == d5.input.updates[d5.index + 1]

\* the closure of filter_map up to the call of fix_update, and fix_update up
\* to the call of hamiltonian_path; the test example_fix_update calls
\* fix_update on the update as it is
D5NextUpdate ==
    /\ d5.pc = "update"
    /\ d5.index < Len(d5.input.updates)
    /\ IF /\ d5.entry = "part_2"
          /\ is_valid_update(make_disallowed_in_suffix_map(d5.input.page_ordering_rules),
                             D5Update)
       THEN d5' = [d5 EXCEPT !.index = @ + 1]
       ELSE d5' = [d5 EXCEPT !.pc = "sort",
                             !.subgraph = subgraph_with_vertices_subset(
                                 with_edges(d5.input.page_ordering_rules),
                                 {D5Update[i] : i \in DOMAIN D5Update}),
                             !.result = <<>>, !.marked_vertices = {},
                             !.sorted = None, !.fixed = None]
    /\ UNCHANGED <<gm, d12, d16, d13, d6, d11, d10, d9, d8>>

\* topologically_sort: the loop takes some unmarked vertex, in the order of
\* the hash set, and visits it with no temporary marks
D5SortVisit ==
    /\ d5.pc = "sort"
    /\ \E unmarked_vertex \in d5.subgraph.vertices_subset \ d5.marked_vertices :
          d5' = [d5 EXCEPT !.pc = "visit",
                           !.tmp_marks_vertices = {unmarked_vertex},
                           !.stack = <<D5Frame(d5.subgraph, unmarked_vertex)>>]
    /\ UNCHANGED <<gm, d12, d16, d13, d6, d11, d10, d9, d8>>

\* topologically_sort: no unmarked vertex is left
D5SortReturn ==
    /\ d5.pc = "sort"
    /\ d5.subgraph.vertices_subset \subseteq d5.marked_vertices
    /\ d5' = [d5 EXCEPT !.pc = "sorted", !.sorted = Some(D5Reverse(d5.result))]
    /\ UNCHANGED <<gm, d12, d16, d13, d6, d11, d10, d9, d8>>

\* visit: the next of dest_vertices, in the order of the hash set, and the
\* call of visit on it up to its own iteration
D5VisitDest ==
    /\ d5.pc = "visit"
    /\ \E v \in Last(d5.stack).dest_vertices :
          LET rest == [d5.stack EXCEPT ![Len(d5.stack)].dest_vertices = @ \ {v}]
          IN  IF v \in d5.marked_vertices
              THEN d5' = [d5 EXCEPT !.stack = rest]
              ELSE IF v \in d5.tmp_marks_vertices
              THEN d5' = [d5 EXCEPT !.pc = "sorted", !.sorted = None, !.stack = <<>>]
              ELSE d5' = [d5 EXCEPT !.tmp_marks_vertices = @ \cup {v},
                                    !.stack = Append(rest, D5Frame(d5.subgraph, v))]
    /\ UNCHANGED <<gm, d12, d16, d13, d6, d11, d10, d9, d8>>

\* visit: dest_vertices are done, the vertex is marked and pushed
D5VisitReturn ==
    /\ d5.pc = "visit"
    /\ Last(d5.stack).dest_vertices = {}
    /\ d5' = [d5 EXCEPT !.marked_vertices = @ \cup {Last(d5.stack).vertex},
                        !.result = Append(@, Last(d5.stack).vertex),
                        !.stack = Front(d5.stack),
                        !.pc = IF Len(d5.stack) = 1 THEN "sort" ELSE "visit"]
    /\ UNCHANGED <<gm, d12, d16, d13, d6, d11, d10, d9, d8>>

\* hamiltonian_path, after topologically_sort has returned; fix_update
\* returns what it returns
D5HamiltonianPath ==
    /\ d5.pc = "sorted"
    /\ d5' = [d5 EXCEPT !.pc = "fixed",
                        !.fixed = IF IsSome(d5.sorted)
                                  THEN (IF D5AllPairsHaveEdges(d5.subgraph.graph,
                                                               d5.sorted.value)
                                        THEN d5.sorted ELSE None)
                                  ELSE None]
    /\ UNCHANGED <<gm, d12, d16, d13, d6, d11, d10, d9, d8>>

\* the guard! of the closure: the middle page of the fixed update, or the panic
D5Collect ==
    /\ d5.pc = "fixed"
    /\ d5.entry = "part_2"
    /\ IF IsSome(d5.fixed)
       THEN d5' = [d5 EXCEPT !.pc = "update", !.index = @ + 1,
                             !.sum = @ + middle_page_number(d5.fixed.value)]
       ELSE d5' = [d5 EXCEPT !.pc = "panic", !.error = Some("INVALID RULE SET")]
    /\ UNCHANGED <<gm, d12, d16, d13, d6, d11, d10, d9, d8>>

\* the test has its fixed update
D5FixUpdateReturn ==
    /\ d5.pc = "fixed"
    /\ d5.entry = "fix_update"
    /\ d5' = [d5 EXCEPT !.pc = "done", !.index = @ + 1]
    /\ UNCHANGED <<gm, d12, d16, d13, d6, d11, d10, d9, d8>>

\* .sum() of sum_of_middle_page_numbers_of_fixed_invalid_updates
D5Return ==
    /\ d5.pc = "update"
    /\ d5.index = Len(d5.input.updates)
    /\ d5' = [d5 EXCEPT !.pc = "done", !.answer = Some(d5.sum)]
    /\ UNCHANGED <<gm, d12, d16, d13, d6, d11, d10, d9, d8>>

D5Next ==
    \/ D5NextUpdate \/ D5SortVisit \/ D5SortReturn \/ D5VisitDest \/ D5VisitReturn
    \/ D5HamiltonianPath \/ D5Collect \/ D5FixUpdateReturn \/ D5Return

SpecDay5 == D5Init /\ [][D5Next]_vars

\* the pages of an update that some rule names
D5RulePages(rules, update) ==
    {update[i] : i \in DOMAIN update} \cap
    ({rule[1] : rule \in rules} \cup {rule[2] : rule \in rules})

\* the orders of a set of pages in which no rule points backwards
D5TopologicalOrders(rules, pages) ==
    {t \in [1..Cardinality(pages) -> pages] :
        /\ \A i, j \in DOMAIN t : t[i] = t[j] => i = j
        /\ \A i, j \in DOMAIN t : <<t[i], t[j]>> \in rules => i < j}

\* those of them in which every consecutive pair is a rule
D5DirectOrders(rules, pages) ==
    {t \in D5TopologicalOrders(rules, pages) :
        \A i \in 1..(Len(t) - 1) : <<t[i], t[i + 1]>> \in rules}

\* C11: hamiltonian_path returns an order iff topologically_sort returns one
\* and all its consecutive pairs are direct edges of the rule graph; when
\* the pages of an invalid update have no topological order of that kind,
\* sum_of_middle_page_numbers_of_fixed_invalid_updates aborts with
\* 'INVALID RULE SET' and yields no sum, and it returns a sum only when
\* every invalid update has one.
C11_NoDirectOrderIsFatal ==
    LET rules == d5.input.page_ordering_rules
        pages == D5RulePages(rules, D5Update)
    IN  /\ d5.pc = "sorted" =>
              /\ IsSome(d5.sorted) <=> D5TopologicalOrders(rules, pages) # {}
              /\ IsSome(d5.sorted) => d5.sorted.value \in D5TopologicalOrders(rules, pages)
        /\ d5.pc = "fixed" =>
              /\ IsSome(d5.fixed) <=>
                    /\ IsSome(d5.sorted)
                    /\ \A i \in 1..(Len(d5.sorted.value) - 1) :
                          <<d5.sorted.value[i], d5.sorted.value[i + 1]>> \in rules
              /\ IsSome(d5.fixed) => d5.fixed = d5.sorted
              /\ IsSome(d5.fixed) <=> D5DirectOrders(rules, pages) # {}
        /\ d5.pc = "panic" =>
              /\ d5.error = Some("INVALID RULE SET")
              /\ d5.answer = None
              /\ D5DirectOrders(rules, pages) = {}
              /\ ~is_valid_update(make_disallowed_in_suffix_map(rules), D5Update)
        /\ (d5.pc = "done" /\ d5.entry = "part_2") =>
              /\ IsSome(d5.answer)
              /\ \A i \in DOMAIN d5.input.updates :
                    \/ is_valid_update(make_disallowed_in_suffix_map(rules),
                                       d5.input.updates[i])
                    \/ D5DirectOrders(rules, D5RulePages(rules, d5.input.updates[i])) # {}

\* the abort comes after an earlier update was fixed and counted, on an
\* update whose pages have a topological order, but none whose consecutive
\* pairs are all rules
C11_Witness ==
    /\ d5.pc = "panic"
    /\ d5.index = 1
    /\ d5.sum > 0
    /\ IsSome(d5.sorted)

\* the place of a page in a sequence without repetitions
D5IndexOf(t, page) == CHOOSE i \in DOMAIN t : t[i] = page

\* C12: a sequence fix_update returns is a valid update under the same
\* rules: is_valid_update accepts it, and for no rule l|r with both pages
\* present does r appear before l.
C12_FixedUpdateIsValid ==
    (d5.pc = "fixed" /\ IsSome(d5.fixed)) =>
        LET rules == d5.input.page_ordering_rules
            t == d5.fixed.value
            present == {t[i] : i \in DOMAIN t}
        IN  /\ is_valid_update(make_disallowed_in_suffix_map(rules), t)
            /\ \A rule \in rules :
                  (rule[1] \in present /\ rule[2] \in present) =>
                      ~(D5IndexOf(t, rule[2]) < D5IndexOf(t, rule[1]))

\* fix_update has returned three pages in another order than the update's
C12_Witness ==
    /\ d5.pc = "fixed"
    /\ IsSome(d5.fixed)
    /\ Len(d5.fixed.value) = 3
    /\ d5.fixed.value # D5Update

(***************************************************************************)
(* src/src/day_10.rs                                                       *)
(***************************************************************************)

D10MaxChanges == 1

D10TrailEnd == 9

\* topographic maps with trails from 0 to 9: the first example of the
\* puzzle (4x4) and boustrophedon maps of 2x5, 5x2 and 3x4 cells
D10BaseGrids ==
    { << <<0, 1, 2, 3>>, <<1, 2, 3, 4>>, <<8, 7, 6, 5>>, <<9, 8, 7, 6>> >>,
      << <<0, 1, 2, 3, 4>>, <<9, 8, 7, 6, 5>> >>,
      << <<0, 9>>, <<1, 8>>, <<2, 7>>, <<3, 6>>, <<4, 5>> >>,
      << <<0, 1, 2, 3>>, <<7, 6, 5, 4>>, <<8, 9, 0, 1>> >> }

\* the maps that differ from g in at most k cells
RECURSIVE D10Changed(_, _)
D10Changed(g, k) ==
    IF k = 0 THEN {g}
    ELSE LET fewer == D10Changed(g, k - 1)
         IN  fewer \cup
             {[h EXCEPT ![i][j] = height] :
                 h \in fewer, i \in 1..Len(g), j \in 1..Len(g[1]),
                 height \in 0..D10TrailEnd}

D10Grids == UNION {D10Changed(g, D10MaxChanges) : g \in D10BaseGrids}

\* day 10's own Grid::size: GridSize(rows, cols)
D10Size(g) == <<Len(g), IF Len(g) > 0 THEN Len(g[1]) ELSE 0>>

\* Grid::new_fill_with: takes the first number of the size as the length
\* of a row and the second as the number of rows
new_fill_with(elm, grid_size) ==
    LET cols == grid_size[1]
        rows == grid_size[2]
    IN  [i \in 1..rows |-> [j \in 1..cols |-> elm]]

\* day 10's own Position::checked_add_offset
D10CheckedAddOffset(position, offset, grid) ==
    LET rows == D10Size(grid)[1]
        cols == D10Size(grid)[2]
        row_index == checked_add_signed(position.row_index, offset.row_offset)
        col_index == checked_add_signed(position.col_index, offset.col_offset)
    IN  IF ~IsSome(row_index) \/ ~(row_index.value < rows) THEN None
        ELSE IF ~IsSome(col_index) \/ ~(col_index.value < cols) THEN None
        ELSE Some(Position(row_index.value, col_index.value))

\* Down, Up, Right, Left
D10Offsets == <<Offset(1, 0), Offset(-1, 0), Offset(0, 1), Offset(0, -1)>>

\* the filter_map of calculate_score_of_trailhead, offset by offset
RECURSIVE D10NextPositions(_, _, _)
D10NextPositions(grid, current_position, k) ==
    IF k > Len(D10Offsets) THEN <<>>
    ELSE LET position == D10CheckedAddOffset(current_position, D10Offsets[k], grid)
             rest == D10NextPositions(grid, current_position, k + 1)
         IN  IF IsSome(position)
             THEN (IF must_get_cell(grid, position.value)
                         = must_get_cell(grid, current_position) + 1
                   THEN <<position.value>> \o rest
                   ELSE rest)
             ELSE rest

\* discover_trailheads: row by row
RECURSIVE D10Trailheads(_, _)
D10Trailheads(grid, k) ==
    LET rows == D10Size(grid)[1]
        cols == D10Size(grid)[2]
        pos == Position((k - 1) \div cols, (k - 1) % cols)
    IN  IF k > rows * cols THEN <<>>
        ELSE IF must_get_cell(grid, pos) = 0
        THEN <<pos>> \o D10Trailheads(grid, k + 1)
        ELSE D10Trailheads(grid, k + 1)

D10Init ==
    /\ \E grid \in D10Grids, unique_trail_ends \in BOOLEAN :
          d10 = [pc |-> "trailheads", grid |-> grid,
                 unique_trail_ends |-> unique_trail_ends,
                 trailheads |-> D10Trailheads(grid, 1), index |-> 0, total |-> 0,
                 visited |-> <<>>, score |-> 0, next_positions |-> <<>>,
                 result |-> None]
    /\ gm = Idle /\ d12 = Idle /\ d16 = Idle /\ d13 = Idle /\ d6 = Idle /\ d11 = Idle
    /\ d5 = Idle /\ d9 = Idle /\ d8 = Idle

\* calculate_score_of_trailhead up to its loop
D10Trailhead ==
    /\ d10.pc = "trailheads"
    /\ d10.index < Len(d10.trailheads)
    /\ d10' = [d10 EXCEPT !.pc = "search",
                          !.visited = new_fill_with(FALSE, D10Size(d10.grid)),
                          !.score = 0,
                          !.next_positions = <<d10.trailheads[d10.index + 1]>>]
    /\ UNCHANGED <<gm, d12, d16, d13, d6, d11, d5, d9, d8>>

\* one turn of the while loop; must_get_cell and must_get_mut_cell panic on
\* a position visited does not have
D10Pop ==
    /\ d10.pc = "search"
    /\ d10.next_positions # <<>>
    /\ LET current_position == Last(d10.next_positions)
           popped == Front(d10.next_positions)
           current_height == must_get_cell(d10.grid, current_position)
       IN  IF ~d10.unique_trail_ends /\ ~CellExists(d10.visited, current_position)
           THEN d10' = [d10 EXCEPT !.pc = "panic", !.next_positions = popped]
           ELSE IF ~d10.unique_trail_ends /\ must_get_cell(d10.visited, current_position)
           THEN d10' = [d10 EXCEPT !.next_positions = popped]
           ELSE IF ~CellExists(d10.visited, current_position)
           THEN d10' = [d10 EXCEPT
                          !.pc = "panic",
                          !.score = IF current_height = D10TrailEnd THEN @ + 1 ELSE @,
                          !.next_positions =
                              IF current_height = D10TrailEnd THEN popped
                              ELSE popped \o D10NextPositions(d10.grid, current_position, 1)]
           ELSE d10' = [d10 EXCEPT
                          !.score = IF current_height = D10TrailEnd THEN @ + 1 ELSE @,
                          !.next_positions =
                              IF current_height = D10TrailEnd THEN popped
                              ELSE popped \o D10NextPositions(d10.grid, current_position, 1),
                          !.visited = SetCell(@, current_position, TRUE)]
    /\ UNCHANGED <<gm, d12, d16, d13, d6, d11, d5, d9, d8>>

\* the loop ends, the score joins the sum
D10Score ==
    /\ d10.pc = "search"
    /\ d10.next_positions = <<>>
    /\ d10' = [d10 EXCEPT !.pc = "trailheads", !.index = @ + 1,
                          !.total = @ + d10.score]
    /\ UNCHANGED <<gm, d12, d16, d13, d6, d11, d5, d9, d8>>

\* calculate_total_score returns
D10Return ==
    /\ d10.pc = "trailheads"
    /\ d10.index = Len(d10.trailheads)
    /\ d10' = [d10 EXCEPT !.pc = "done", !.result = Some(d10.total)]
    /\ UNCHANGED <<gm, d12, d16, d13, d6, d11, d5, d9, d8>>

D10Next == D10Trailhead \/ D10Pop \/ D10Score \/ D10Return

SpecDay10 == D10Init /\ [][D10Next]_vars

D10Cells(grid) ==
    {Position(r, c) : r \in 0..(Len(grid) - 1), c \in 0..(Len(grid[1]) - 1)}

\* the cells one step from p: next to it and higher by exactly 1
D10Steps(grid, p) ==
    {q \in D10Cells(grid) :
        /\ (IF q.row_index > p.row_index THEN q.row_index - p.row_index
                                          ELSE p.row_index - q.row_index)
           + (IF q.col_index > p.col_index THEN q.col_index - p.col_index
                                            ELSE p.col_index - q.col_index) = 1
        /\ must_get_cell(grid, q) = must_get_cell(grid, p) + 1}

\* the height-9 cells that trails from p reach
RECURSIVE D10Ends(_, _)
D10Ends(grid, p) ==
    IF must_get_cell(grid, p) = D10TrailEnd THEN {p}
    ELSE UNION {D10Ends(grid, q) : q \in D10Steps(grid, p)}

\* the number of trails from p to a height-9 cell, and its sum over cells
RECURSIVE D10Paths(_, _), D10SumPaths(_, _)
D10Paths(grid, p) ==
    IF must_get_cell(grid, p) = D10TrailEnd THEN 1
    ELSE D10SumPaths(grid, D10Steps(grid, p))

D10SumPaths(grid, cells) ==
    IF cells = {} THEN 0
    ELSE LET p == CHOOSE p \in cells : TRUE
         IN  D10Paths(grid, p) + D10SumPaths(grid, cells \ {p})

RECURSIVE D10Total(_, _, _)
D10Total(grid, heads, unique_trail_ends) ==
    IF heads = {} THEN 0
    ELSE LET p == CHOOSE p \in heads : TRUE
         IN  (IF unique_trail_ends THEN D10Paths(grid, p)
              ELSE Cardinality(D10Ends(grid, p)))
             + D10Total(grid, heads \ {p}, unique_trail_ends)

D10Expected(grid, unique_trail_ends) ==
    D10Total(grid, {p \in D10Cells(grid) : must_get_cell(grid, p) = 0}, unique_trail_ends)

\* C13: on every rectangular height grid, rows # columns included, the
\* total score is the sum over the height-0 cells of the number of distinct
\* height-9 cells reachable by steps that raise the height by exactly 1,
\* and the total rating is the sum of the numbers of such paths.
C13_ScoreAndRating ==
    /\ d10.pc # "panic"
    /\ d10.pc = "done" =>
          d10.result = Some(D10Expected(d10.grid, d10.unique_trail_ends))

\* on square grids the two totals are as stated
D10SquareScoreAndRating ==
    Len(d10.grid) = Len(d10.grid[1]) =>
        /\ d10.pc # "panic"
        /\ d10.pc = "done" =>
              d10.result = Some(D10Expected(d10.grid, d10.unique_trail_ends))

(***************************************************************************)
(* src/src/day_9.rs                                                        *)
(***************************************************************************)

D9MaxDigits == 5
D9MaxDigit == 3

\* Block and Fragment
BlockFree == [tag |-> "Free"]
BlockFile(id) == [tag |-> "File", id |-> id]
FragmentFree(count) == [tag |-> "Free", size |-> count]
FragmentFile(id, count) == [tag |-> "File", id |-> id, size |-> count]

\* repeat(block).take(count)
D9Repeat(block, count) == [i \in 1..count |-> block]

\* the digits of a disk map, as input_from_digits hands them on
D9Counts == UNION {[1..len -> 0..D9MaxDigit] : len \in 1..D9MaxDigits}

\* FragmentState before the k-th digit: files and free space alternate,
\* and file ids count the files
D9IsFile(k) == k % 2 = 1
D9FileId(k) == (k - 1) \div 2

RECURSIVE D9Flatten(_)
D9Flatten(runs) == IF runs = <<>> THEN <<>> ELSE Head(runs) \o D9Flatten(Tail(runs))

digits_to_blocks(counts) ==
    D9Flatten([k \in 1..Len(counts) |->
                  D9Repeat(IF D9IsFile(k) THEN BlockFile(D9FileId(k)) ELSE BlockFree,
                           counts[k])])

digits_to_fragments(counts) ==
    [k \in 1..Len(counts) |->
        IF D9IsFile(k) THEN FragmentFile(D9FileId(k), counts[k])
        ELSE FragmentFree(counts[k])]

\* as D9ChecksumTerm, taking a Free block for a block of file 1
D9ChecksumTermFreeAsFile(idx, block) ==
    IF block.tag = "File" THEN idx * block.id ELSE idx

\* the match of calculate_disk_checksum: what the block at idx adds to acc
D9ChecksumTerm(idx, block) ==
    IF block.tag = "File" THEN idx * block.id ELSE 0

\* calculate_disk_checksum: the fold, enumerate() counting from 0
RECURSIVE D9ChecksumFrom(_, _)
D9ChecksumFrom(blocks, k) ==
    IF k > Len(blocks) THEN 0
    ELSE D9ChecksumTerm(k - 1, blocks[k]) + D9ChecksumFrom(blocks, k + 1)

calculate_disk_checksum(blocks) == D9ChecksumFrom(blocks, 1)

\* l_iter.find(|idx| blocks[*idx] == Block::Free), l_iter standing at next
D9FindFree(blocks, next) ==
    LET found == {idx \in next..(Len(blocks) - 1) : blocks[idx + 1] = BlockFree}
    IN  IF found = {} THEN None
        ELSE Some(CHOOSE idx \in found : \A other \in found : idx <= other)

\* r_iter.find(|idx| blocks[*idx] != Block::Free), r_iter standing at next
D9FindFile(blocks, next) ==
    LET found == {idx \in 0..next : blocks[idx + 1] # BlockFree}
    IN  IF found = {} THEN None
        ELSE Some(CHOOSE idx \in found : \A other \in found : idx >= other)

\* as D9IndicesInOrder, letting every pair through
D9IndicesInAnyOrder(l_idx, r_idx) == TRUE

\* the filter on l_idx.zip(r_idx)
D9IndicesInOrder(l_idx, r_idx) == l_idx < r_idx

\* blocks.swap(l_idx, r_idx)
D9Swap(blocks, l_idx, r_idx) ==
    [blocks EXCEPT ![l_idx + 1] = blocks[r_idx + 1], ![r_idx + 1] = blocks[l_idx + 1]]

\* as D9FindPosition, but the last fragment of that kind
D9FindLastPosition(fragments, file_size) ==
    LET found == {i \in 0..(Len(fragments) - 1) :
                     /\ fragments[i + 1].tag = "Free"
                     /\ fragments[i + 1].size >= file_size}
    IN  IF found = {} THEN None
        ELSE Some(CHOOSE i \in found : \A other \in found : i >= other)

\* find_position: the first Free fragment of at least file_size
D9FindPosition(fragments, file_size) ==
    LET found == {i \in 0..(Len(fragments) - 1) :
                     /\ fragments[i + 1].tag = "Free"
                     /\ fragments[i + 1].size >= file_size}
    IN  IF found = {} THEN None
        ELSE Some(CHOOSE i \in found : \A other \in found : i <= other)

\* as D9Insert, storing the element over the one at index
D9InsertOver(fragments, index, element) ==
    [k \in DOMAIN fragments |-> IF k = index + 1 THEN element ELSE fragments[k]]

\* Vec::insert(index, element)
D9Insert(fragments, index, element) ==
    SubSeq(fragments, 1, index) \o <<element>> \o SubSeq(fragments, index + 1, Len(fragments))

\* move_file_fragment: whether the file moved, and the fragments after it
move_file_fragment(fragments, file_idx, file_id, file_size) ==
    LET position == D9FindPosition(fragments, file_size)
    IN  IF IsSome(position) /\ position.value < file_idx
        THEN LET move_to_index == position.value
                 empty_fragment == fragments[move_to_index + 1]
                 replaced == [fragments EXCEPT
                                 ![move_to_index + 1] = FragmentFile(file_id, file_size),
                                 ![file_idx + 1] = FragmentFree(file_size)]
             IN  [moved |-> TRUE,
                  fragments |-> IF empty_fragment.size > file_size
                                THEN D9Insert(replaced, move_to_index + 1,
                                              FragmentFree(empty_fragment.size - file_size))
                                ELSE replaced]
        ELSE [moved |-> FALSE, fragments |-> fragments]

\* the final map of part 2's compact_disk: every fragment as its blocks
D9FragmentsToBlocks(fragments) ==
    D9Flatten([k \in 1..Len(fragments) |->
                  D9Repeat(IF fragments[k].tag = "Free" THEN BlockFree
                           ELSE BlockFile(fragments[k].id),
                           fragments[k].size)])

D9Init ==
    /\ \E counts \in D9Counts, part \in {1, 2} :
          d9 = [pc |-> "start", part |-> part, counts |-> counts,
                input_blocks |-> IF part = 1 THEN digits_to_blocks(counts) ELSE <<>>,
                fragments |-> IF part = 2 THEN digits_to_fragments(counts) ELSE <<>>,
                blocks |-> <<>>, l_iter |-> 0, r_iter |-> 0,
                output_fragments |-> <<>>, file_ids_to_move |-> {}, r_neg_offset |-> 0,
                result |-> None]
    /\ gm = Idle /\ d12 = Idle /\ d16 = Idle /\ d13 = Idle /\ d6 = Idle /\ d11 = Idle
    /\ d5 = Idle /\ d10 = Idle /\ d8 = Idle

\* part_1::compact_disk up to its loop
D9Part1Start ==
    /\ d9.pc = "start"
    /\ d9.part = 1
    /\ IF d9.input_blocks = <<>>
       THEN d9' = [d9 EXCEPT !.pc = "compacted", !.blocks = <<>>]
       ELSE d9' = [d9 EXCEPT !.pc = "loop_1", !.blocks = d9.input_blocks,
                             !.l_iter = 0, !.r_iter = Len(d9.input_blocks) - 1]
    /\ UNCHANGED <<gm, d12, d16, d13, d6, d11, d5, d10, d8>>

\* one turn of the loop of part_1::compact_disk; find leaves each iterator
\* behind what it found, or at its end
D9Part1Turn ==
    /\ d9.pc = "loop_1"
    /\ LET l_idx == D9FindFree(d9.blocks, d9.l_iter)
           r_idx == D9FindFile(d9.blocks, d9.r_iter)
       IN  IF IsSome(l_idx) /\ IsSome(r_idx)
           THEN (IF D9IndicesInOrder(l_idx.value, r_idx.value)
                 THEN d9' = [d9 EXCEPT !.blocks = D9Swap(@, l_idx.value, r_idx.value),
                                       !.l_iter = l_idx.value + 1,
                                       !.r_iter = r_idx.value - 1]
                 ELSE d9' = [d9 EXCEPT !.pc = "compacted",
                                       !.l_iter = l_idx.value + 1,
                                       !.r_iter = r_idx.value - 1])
           ELSE d9' = [d9 EXCEPT !.pc = "compacted",
                                 !.l_iter = IF IsSome(l_idx) THEN l_idx.value + 1
                                            ELSE Len(d9.blocks),
                                 !.r_iter = IF IsSome(r_idx) THEN r_idx.value - 1 ELSE -1]
    /\ UNCHANGED <<gm, d12, d16, d13, d6, d11, d5, d10, d8>>

\* part_2::compact_disk up to its loop
D9Part2Start ==
    /\ d9.pc = "start"
    /\ d9.part = 2
    /\ d9' = [d9 EXCEPT !.pc = "loop_2", !.output_fragments = d9.fragments,
                        !.file_ids_to_move =
                            {d9.fragments[k].id :
                                k \in {i \in DOMAIN d9.fragments : d9.fragments[i].tag = "File"}},
                        !.r_neg_offset = 0]
    /\ UNCHANGED <<gm, d12, d16, d13, d6, d11, d5, d10, d8>>

\* the fragment the loop of part_2::compact_disk looks at
D9Idx == Len(d9.fragments) - 1 - d9.r_neg_offset

\* one turn of the while loop of part_2::compact_disk
D9Part2Turn ==
    /\ d9.pc = "loop_2"
    /\ d9.r_neg_offset < Len(d9.fragments)
    /\ LET fragment == d9.output_fragments[D9Idx + 1]
       IN  IF fragment.tag = "File" /\ fragment.id \in d9.file_ids_to_move
           THEN LET move == move_file_fragment(d9.output_fragments, D9Idx,
                                               fragment.id, fragment.size)
                IN  d9' = [d9 EXCEPT !.file_ids_to_move = @ \ {fragment.id},
                                     !.output_fragments = move.fragments,
                                     !.r_neg_offset = IF move.moved THEN @ ELSE @ + 1]
           ELSE d9' = [d9 EXCEPT !.r_neg_offset = @ + 1]
    /\ UNCHANGED <<gm, d12, d16, d13, d6, d11, d5, d10, d8>>

\* the loop of part_2::compact_disk is over, the fragments become blocks
D9Part2Blocks ==
    /\ d9.pc = "loop_2"
    /\ ~(d9.r_neg_offset < Len(d9.fragments))
    /\ d9' = [d9 EXCEPT !.pc = "compacted",
                        !.blocks = D9FragmentsToBlocks(d9.output_fragments)]
    /\ UNCHANGED <<gm, d12, d16, d13, d6, d11, d5, d10, d8>>

\* compact_disk_and_calculate_checksum, after compact_disk
D9Checksum ==
    /\ d9.pc = "compacted"
    /\ d9' = [d9 EXCEPT !.pc = "done", !.result = Some(calculate_disk_checksum(d9.blocks))]
    /\ UNCHANGED <<gm, d12, d16, d13, d6, d11, d5, d10, d8>>

D9Next ==
    \/ D9Part1Start \/ D9Part1Turn \/ D9Part2Start \/ D9Part2Turn \/ D9Part2Blocks
    \/ D9Checksum

SpecDay9 == D9Init /\ [][D9Next]_vars

D9AllFree(blocks) == \A k \in DOMAIN blocks : blocks[k] = BlockFree

\* C14: calculate_disk_checksum is 0 on the empty block sequence and on
\* every sequence of Free blocks only, and so is part 1's
\* compact_disk_and_calculate_checksum.
C14_ChecksumOfFreeDiskIsZero ==
    (d9.part = 1 /\ D9AllFree(d9.input_blocks)) =>
        /\ calculate_disk_checksum(d9.input_blocks) = 0
        /\ d9.pc = "done" => d9.result = Some(0)

\* part 1 has returned on a disk of several blocks, all of them Free
C14_Witness ==
    /\ d9.pc = "done"
    /\ d9.part = 1
    /\ D9AllFree(d9.input_blocks)
    /\ Len(d9.input_blocks) >= 2

\* part 1 has returned on the empty disk
C14_WitnessEmpty ==
    /\ d9.pc = "done"
    /\ d9.part = 1
    /\ d9.input_blocks = <<>>

D9Indices(blocks) == 0..(Len(blocks) - 1)
D9FreeIndices(blocks) == {i \in D9Indices(blocks) : blocks[i + 1] = BlockFree}
D9FileIndices(blocks) == {i \in D9Indices(blocks) : blocks[i + 1].tag = "File"}
D9Min(S) == CHOOSE i \in S : \A other \in S : i <= other
D9Max(S) == CHOOSE i \in S : \A other \in S : i >= other

\* how often block occurs in blocks
D9Occurrences(blocks, block) == Cardinality({k \in DOMAIN blocks : blocks[k] = block})

D9Rearrangement(blocks, of) ==
    /\ Len(blocks) = Len(of)
    /\ \A k \in DOMAIN of : D9Occurrences(blocks, of[k]) = D9Occurrences(of, of[k])

D9NoFreeBeforeFile(blocks) ==
    \A i \in D9FreeIndices(blocks), j \in D9FileIndices(blocks) : j < i

\* a turn of part 1's loop swaps the leftmost Free block with the rightmost
\* File block when the former is left of the latter, and ends the loop otherwise
D9TurnSwapsTheEnds ==
    d9.pc = "loop_1" =>
        LET frees == D9FreeIndices(d9.blocks)
            files == D9FileIndices(d9.blocks)
        IN  IF frees # {} /\ files # {} /\ D9Min(frees) < D9Max(files)
            THEN /\ d9'.pc = "loop_1"
                 /\ d9'.blocks = D9Swap(d9.blocks, D9Min(frees), D9Max(files))
            ELSE /\ d9'.pc = "compacted"
                 /\ d9'.blocks = d9.blocks

D9Part1Compacted ==
    (d9.part = 1 /\ d9.pc \in {"compacted", "done"}) =>
        /\ D9Rearrangement(d9.blocks, d9.input_blocks)
        /\ D9NoFreeBeforeFile(d9.blocks)

\* C20: part 1's compact_disk swaps the leftmost Free block with the rightmost
\* File block, from the ends inward, while the Free index is left of the File
\* index; what it returns is a rearrangement of its input (the same multiset
\* of blocks) in which no Free block precedes a File block.
C20_Part1Compacts == [][D9TurnSwapsTheEnds]_vars /\ []D9Part1Compacted

\* part 1 has compacted a disk on which it had to swap more than once
C20_Witness ==
    /\ d9.part = 1
    /\ d9.pc = "compacted"
    /\ Cardinality({k \in DOMAIN d9.blocks : d9.blocks[k] # d9.input_blocks[k]}) >= 4

D9FileIds(fragments) ==
    {fragments[k].id : k \in {i \in DOMAIN fragments : fragments[i].tag = "File"}}

\* the loop of part 2 is at a file it has not attempted yet
D9Attempts ==
    /\ d9.pc = "loop_2"
    /\ d9.r_neg_offset < Len(d9.fragments)
    /\ d9.output_fragments[D9Idx + 1].tag = "File"
    /\ d9.output_fragments[D9Idx + 1].id \in d9.file_ids_to_move

\* the Free fragments strictly left of idx that hold at least file_size
D9Fits(fragments, idx, file_size) ==
    {i \in 0..(idx - 1) : /\ fragments[i + 1].tag = "Free"
                          /\ fragments[i + 1].size >= file_size}

\* fragments after the file at idx has gone to the fragment at to
D9Moved(fragments, idx, to) ==
    LET file == fragments[idx + 1]
        gap == fragments[to + 1].size
    IN  SubSeq(fragments, 1, to)
        \o <<file>>
        \o (IF gap > file.size THEN <<FragmentFree(gap - file.size)>> ELSE <<>>)
        \o SubSeq(fragments, to + 2, idx)
        \o <<FragmentFree(file.size)>>
        \o SubSeq(fragments, idx + 2, Len(fragments))

\* part 2's compact_disk starts with every file still to attempt
D9StartsWithEveryFile ==
    (d9.pc = "start" /\ d9.part = 2) =>
        d9'.file_ids_to_move = D9FileIds(d9.fragments)

\* an attempt is of the file of the largest id not attempted yet, strikes it
\* off, and moves it to the leftmost Free fragment left of it that holds it,
\* when there is one; a turn without an attempt moves nothing
D9TurnMovesTheFile ==
    d9.pc = "loop_2" =>
        IF D9Attempts
        THEN LET file == d9.output_fragments[D9Idx + 1]
                 fits == D9Fits(d9.output_fragments, D9Idx, file.size)
             IN  /\ file.id = D9Max(d9.file_ids_to_move)
                 /\ d9'.file_ids_to_move = d9.file_ids_to_move \ {file.id}
                 /\ d9'.output_fragments =
                        IF fits = {} THEN d9.output_fragments
                        ELSE D9Moved(d9.output_fragments, D9Idx, D9Min(fits))
        ELSE /\ d9'.file_ids_to_move = d9.file_ids_to_move
             /\ d9'.output_fragments = d9.output_fragments

\* when the loop is over no file is left to attempt
D9EveryFileAttempted ==
    (d9.part = 2 /\ d9.pc \in {"compacted", "done"}) => d9.file_ids_to_move = {}

\* C19: part 2's compact_disk attempts every file exactly once, in order of
\* decreasing file id, and moves a file iff some Free fragment strictly to its
\* left has at least the file's size: the file replaces the leftmost such
\* fragment, the leftover free space stays as a Free fragment right after it,
\* and the file's old place becomes a Free fragment of the file's size.
C19_Part2MovesWholeFiles ==
    /\ [][D9StartsWithEveryFile /\ D9TurnMovesTheFile]_vars
    /\ []D9EveryFileAttempted

\* part 2 is done with a disk on which a file of some size went into a larger gap
C19_Witness ==
    /\ d9.part = 2
    /\ d9.pc = "compacted"
    /\ Len(d9.output_fragments) > Len(d9.fragments)
    /\ \E k \in DOMAIN d9.fragments :
          /\ d9.output_fragments[k].tag = "File"
          /\ d9.output_fragments[k].size > 0
          /\ d9.output_fragments[k] # d9.fragments[k]

(***************************************************************************)
(* src/src/day_16.rs: calaculate_lowest_score on a grid and on the same    *)
(* grid with the starting and the ending cell swapped                      *)
(***************************************************************************)

\* the state calaculate_lowest_score starts its loop in
D16Entry(input) ==
    [pc |-> "loop", input |-> input,
     next_positions |-> [k \in 1..4 |->
         [position |-> input.starting_position,
          direction |-> D16Offsets[k], score |-> 0]],
     visited |-> <<>>,
     result |-> None, answer |-> None]

D16Swapped(input) ==
    [input EXCEPT !.starting_position = input.ending_position,
                  !.ending_position = input.starting_position]

D16SwapInit ==
    /\ \E input \in D16Inputs :
          d16 = [original |-> input, original_result |-> None, call |-> 1]
                    @@ D16Entry(input)
    /\ gm = Idle /\ d12 = Idle /\ d13 = Idle /\ d6 = Idle /\ d11 = Idle
    /\ d5 = Idle /\ d10 = Idle /\ d9 = Idle /\ d8 = Idle

\* the second call, on the swapped input, once the first has returned
D16CallSwapped ==
    /\ d16.pc = "returned"
    /\ d16.call = 1
    /\ d16' = [original |-> d16.original, original_result |-> d16.result, call |-> 2]
                  @@ D16Entry(D16Swapped(d16.original))
    /\ UNCHANGED <<gm, d12, d13, d6, d11, d5, d10, d9, d8>>

D16SwapNext == D16Pop \/ D16Return \/ D16CallSwapped

SpecDay16Swap == D16SwapInit /\ [][D16SwapNext]_vars

\* turning_penalty on the pairs of directions the search uses
D16PenaltyIsSymmetric ==
    \A d1 \in D16Dirs, d2 \in D16Dirs :
        /\ turning_penalty(d1, d2) >= 0
        /\ turning_penalty(d1, d2) = turning_penalty(d2, d1)

\* C15: turning_penalty is non-negative and symmetric, so the lowest score
\* computed with the starting and the ending cell swapped is not lower than
\* the lowest score of the original grid.
C15_SwappedIsNotLower ==
    (d16.pc = "returned" /\ d16.call = 2) =>
        /\ D16PenaltyIsSymmetric
        /\ IsSome(d16.original_result) <=> IsSome(d16.result)
        /\ IsSome(d16.result) => d16.result.value >= d16.original_result.value

\* the part of C15 about turning_penalty alone
D16SwapPenalty == (d16.pc = "returned" /\ d16.call = 2) => D16PenaltyIsSymmetric

\* the least cost over (cell, direction) states is the same both ways
D16SwapMinCost ==
    (d16.pc = "returned" /\ d16.call = 2) =>
        D16MinCost(d16.original) = D16MinCost(D16Swapped(d16.original))

(***************************************************************************)
(* src/src/day_6.rs: number_of_obstructions_that_causes_looping, one       *)
(* candidate position at a time                                            *)
(***************************************************************************)

\* what parser::input builds: the guard's cell is Empty
D6ParsedInputs ==
    {input \in D6Inputs : check_validity(input.guard_initial_position, input.map) = "Valid"}

D6InitialState(input) ==
    GuardState(input.guard_initial_direction, input.guard_initial_position)

\* potential_additional_obstruction_positions
potential_additional_obstruction_positions(guard_states) ==
    {guard_states[k].current_position : k \in 2..Len(guard_states)}

\* as D6WithObstruction, storing nothing
D6WithoutObstruction(input, position) == input

\* input.clone() with Cell::Obstruction stored at position
D6WithObstruction(input, position) ==
    [input EXCEPT !.map[position.row_index + 1][position.col_index + 1] = "Obstruction"]

\* the number of (position, direction) states of a map: a walk with more
\* states never leaves, and move_guard_until_out_of_bound_state_sequence
\* does not return
D6StateCount(map) == 4 * Len(map) * Len(map[1])

D6Part2Init ==
    /\ \E input \in D6ParsedInputs :
          d6 = [pc |-> "walk", original |-> input, guard_states |-> <<>>,
                position |-> None, input |-> input,
                unique_guard_states |-> {},
                guard_state |-> D6InitialState(input),
                result |-> FALSE]
    /\ gm = Idle /\ d12 = Idle /\ d16 = Idle /\ d13 = Idle /\ d11 = Idle
    /\ d5 = Idle /\ d10 = Idle /\ d9 = Idle /\ d8 = Idle

\* one turn of the loop of move_guard_until_out_of_bound_state_sequence
D6WalkTurn ==
    /\ d6.pc = "walk"
    /\ Len(d6.guard_states) < D6StateCount(d6.original.map)
    /\ LET next_guard_state == GuardStateAdvance(d6.guard_state, d6.original.map)
       IN  IF IsSome(next_guard_state)
           THEN d6' = [d6 EXCEPT !.guard_states = Append(@, d6.guard_state),
                                 !.guard_state = next_guard_state.value]
           ELSE d6' = [d6 EXCEPT !.guard_states = Append(@, d6.guard_state),
                                 !.pc = "walked"]
    /\ UNCHANGED <<gm, d12, d16, d13, d11, d5, d10, d9, d8>>

\* the closure of the filter up to its call of
\* move_guard_while_detecting_looping, for one of the potential positions
D6Candidate ==
    /\ d6.pc = "walked"
    /\ \E position \in potential_additional_obstruction_positions(d6.guard_states) :
          LET input == D6WithObstruction(d6.original, position)
          IN  d6' = [d6 EXCEPT !.pc = "loop", !.position = Some(position),
                               !.input = input,
                               !.unique_guard_states = {},
                               !.guard_state = D6InitialState(input)]
    /\ UNCHANGED <<gm, d12, d16, d13, d11, d5, d10, d9, d8>>

D6Part2Next == D6WalkTurn \/ D6Candidate \/ D6LoopTurn

SpecDay6Part2 == D6Part2Init /\ [][D6Part2Next]_vars

D6InBounds(position, map) ==
    /\ 0 <= position.row_index /\ position.row_index < Len(map)
    /\ 0 <= position.col_index /\ position.col_index < Len(map[1])

D6CellAt(position, map) == map[position.row_index + 1][position.col_index + 1]

D6Clockwise(direction) ==
    LET turns == <<"Up", "Right", "Down", "Left", "Up">>
    IN  turns[(CHOOSE k \in 1..4 : turns[k] = direction) + 1]

\* the three cases of the transition
D6Transition(guard_state, map) ==
    LET ahead == PositionAdvance(guard_state.current_position, guard_state.direction)
    IN  IF ~D6InBounds(ahead, map) THEN None
        ELSE IF D6CellAt(ahead, map) = "Obstruction"
        THEN Some([direction |-> D6Clockwise(guard_state.direction),
                   current_position |-> guard_state.current_position])
        ELSE Some([direction |-> guard_state.direction, current_position |-> ahead])

\* GuardState::advance is that transition
D6AdvanceIsTheTransition ==
    GuardStateAdvance(d6.guard_state, d6.input.map) = D6Transition(d6.guard_state, d6.input.map)

\* within a walk the guard's state changes by that transition only
D6OnlyTransition ==
    (d6.pc \in {"walk", "loop"} /\ d6'.pc \in {"walk", "walked", "loop", "done"}
        /\ d6'.guard_state # d6.guard_state) =>
        Some(d6'.guard_state) = D6Transition(d6.guard_state, d6.input.map)

\* the guard stands on an in-bounds cell that is no obstruction
D6GuardOnEmptyCell ==
    /\ D6InBounds(d6.guard_state.current_position, d6.input.map)
    /\ D6CellAt(d6.guard_state.current_position, d6.input.map) # "Obstruction"

\* C16: GuardState::advance moves the guard ahead, direction kept, when the
\* cell ahead is in bounds and empty, turns it clockwise in place when that
\* cell is an obstruction, and gives no next state when it is outside the
\* grid; it is the guard's only transition, hence in every reachable state the
\* guard stands on an in-bounds non-obstruction cell of the map it walks.
C16_GuardOnEmptyCell ==
    /\ []D6AdvanceIsTheTransition
    /\ [][D6OnlyTransition]_vars
    /\ []D6GuardOnEmptyCell

\* the two parts of C16 about advance itself
D6AdvanceContract == []D6AdvanceIsTheTransition /\ [][D6OnlyTransition]_vars

\* the walk of the unchanged map keeps the guard on empty cells
D6OriginalWalkOnEmptyCells == d6.pc \in {"walk", "walked"} => D6GuardOnEmptyCell

(***************************************************************************)
(* src/src/day_6.rs: number_of_obstructions_that_causes_looping, the       *)
(* candidate positions as parallel units                                   *)
(***************************************************************************)

\* move_guard_while_detecting_looping, from the state its loop is in
RECURSIVE D6DetectFrom(_, _, _)
D6DetectFrom(unique_guard_states, guard_state, map) ==
    IF D6Contains(unique_guard_states, guard_state) THEN TRUE
    ELSE LET next_guard_state == GuardStateAdvance(guard_state, map)
         IN  IF IsSome(next_guard_state)
             THEN D6DetectFrom(unique_guard_states \cup {guard_state},
                               next_guard_state.value, map)
             ELSE FALSE

move_guard_while_detecting_looping(input) ==
    D6DetectFrom({}, D6InitialState(input), input.map)

\* the inputs on which move_guard_until_out_of_bound_state_sequence returns
D6ReturningInputs == {input \in D6ParsedInputs : D6WalkLeaves(input)}

\* a unit of the parallel iterator: the closure of the filter on one position
D6Unit(pc, input, result) == [pc |-> pc, input |-> input, result |-> result]

D6ParInit ==
    /\ \E input \in D6ReturningInputs :
          LET potential_positions ==
                  potential_additional_obstruction_positions(D6WalkOf(input))
          IN  d6 = [pc |-> "par_iter", input |-> input,
                    potential_positions |-> potential_positions,
                    units |-> [position \in potential_positions |->
                                  D6Unit("ready", None, None)],
                    count |-> None]
    /\ gm = Idle /\ d12 = Idle /\ d16 = Idle /\ d13 = Idle /\ d11 = Idle
    /\ d5 = Idle /\ d10 = Idle /\ d9 = Idle /\ d8 = Idle

\* let mut input = input.clone()
D6UnitClone ==
    /\ d6.pc = "par_iter"
    /\ \E position \in d6.potential_positions :
          /\ d6.units[position].pc = "ready"
          /\ d6' = [d6 EXCEPT !.units[position] = D6Unit("cloned", Some(d6.input), None)]
    /\ UNCHANGED <<gm, d12, d16, d13, d11, d5, d10, d9, d8>>

\* input.map[..][..] = Cell::Obstruction, on the unit's own input
D6UnitPlace ==
    /\ d6.pc = "par_iter"
    /\ \E position \in d6.potential_positions :
          /\ d6.units[position].pc = "cloned"
          /\ d6' = [d6 EXCEPT !.units[position] =
                        D6Unit("placed",
                               Some(D6WithObstruction(d6.units[position].input.value, position)),
                               None)]
    /\ UNCHANGED <<gm, d12, d16, d13, d11, d5, d10, d9, d8>>

\* move_guard_while_detecting_looping(&input), on the unit's own input
D6UnitDetect ==
    /\ d6.pc = "par_iter"
    /\ \E position \in d6.potential_positions :
          /\ d6.units[position].pc = "placed"
          /\ d6' = [d6 EXCEPT !.units[position] =
                        D6Unit("done", d6.units[position].input,
                               Some(move_guard_while_detecting_looping(
                                        d6.units[position].input.value)))]
    /\ UNCHANGED <<gm, d12, d16, d13, d11, d5, d10, d9, d8>>

\* count(), once every unit has answered
D6Count ==
    /\ d6.pc = "par_iter"
    /\ \A position \in d6.potential_positions : d6.units[position].pc = "done"
    /\ d6' = [d6 EXCEPT !.pc = "returned",
                        !.count = Some(Cardinality({position \in d6.potential_positions :
                                                       d6.units[position].result.value}))]
    /\ UNCHANGED <<gm, d12, d16, d13, d11, d5, d10, d9, d8>>

D6ParNext == D6UnitClone \/ D6UnitPlace \/ D6UnitDetect \/ D6Count

SpecDay6Par == D6ParInit /\ [][D6ParNext]_vars

\* the map with an obstruction at position, cell by cell
D6ObstructedInput(input, position) ==
    [guard_initial_direction |-> input.guard_initial_direction,
     guard_initial_position |-> input.guard_initial_position,
     map |-> [i \in 1..Len(input.map) |-> [j \in 1..Len(input.map[i]) |->
                 IF Position(i - 1, j - 1) = position THEN "Obstruction"
                 ELSE input.map[i][j]]]]

\* the candidates evaluated one by one
D6SequentialCount(input) ==
    Cardinality({position \in potential_additional_obstruction_positions(D6WalkOf(input)) :
                    D6WalkRevisits(D6ObstructedInput(input, position))})

\* a unit that has placed its obstruction holds the input with that one
\* obstruction added, and answers for it
D6UnitsAreIndependent ==
    d6.pc \in {"par_iter", "returned"} =>
        \A position \in d6.potential_positions :
            LET unit == d6.units[position]
            IN  /\ unit.pc \in {"placed", "done"} =>
                      unit.input = Some(D6ObstructedInput(d6.input, position))
                /\ unit.pc = "done" =>
                      unit.result = Some(D6WalkRevisits(D6ObstructedInput(d6.input, position)))

D6CountIsSequential ==
    d6.pc = "returned" => d6.count = Some(D6SequentialCount(d6.input))

D6SharedInputUnchanged == d6'.input = d6.input

\* C17: the candidate positions are evaluated as independent parallel units:
\* each places its obstruction in its own copy of the input, the shared input
\* map is never modified, and under every interleaving and ordering of the
\* units the returned count is that of evaluating the candidates one by one.
C17_ParallelCount ==
    /\ [][D6SharedInputUnchanged]_vars
    /\ []D6UnitsAreIndependent
    /\ []D6CountIsSequential

\* a count returned for several candidates, some of which make the guard loop
C17_Witness ==
    /\ d6.pc = "returned"
    /\ d6.count.value >= 1
    /\ Cardinality(d6.potential_positions) > d6.count.value

(***************************************************************************)
(* src/src/day_11.rs: blink_num_n_times against the recursion without memo *)
(***************************************************************************)

\* count(num, 0) = 1; count(num, d) = the sum of count(s, d - 1) over
\* next_nums(num); Panic where next_nums panics
RECURSIVE D11PlainCount(_, _, _), D11PlainSum(_, _, _)
D11PlainCount(num, depth, overflow_checks) ==
    IF depth = 0 THEN Some(1)
    ELSE LET next == next_nums(num, overflow_checks)
         IN  IF IsSome(next) THEN D11PlainSum(next.value, depth - 1, overflow_checks)
             ELSE Panic

D11PlainSum(nums, depth, overflow_checks) ==
    IF nums = <<>> THEN Some(0)
    ELSE LET first == D11PlainCount(Head(nums), depth, overflow_checks)
             rest == D11PlainSum(Tail(nums), depth, overflow_checks)
         IN  IF IsSome(first) /\ IsSome(rest) THEN Some(first.value + rest.value)
             ELSE Panic

D11EntriesArePlain(memo, overflow_checks) ==
    \A depth \in DOMAIN memo : \A num \in DOMAIN memo[depth] :
        Some(memo[depth][num]) = D11PlainCount(num, depth, overflow_checks)

\* every entry of the memo is the plain count of its (depth, number)
D11MemoEntriesArePlain == D11EntriesArePlain(d11.memo, d11.overflow_checks)

\* on the memo earlier calls have left, blink_num_n_times gives every number
\* its plain count, and leaves a memo of plain counts, also at the depth of
\* the calls that blink_n_times' next call will make
D11MemoAgreesWithPlain ==
    \A num \in D11Nums, depth \in {d \in {d11.n - 1} : d >= 0 /\ d11.pc = "blink"} :
        LET blinked == blink_num_n_times(num, d11.memo, depth, d11.overflow_checks)
        IN  /\ blinked.count = D11PlainCount(num, depth, d11.overflow_checks)
            /\ D11EntriesArePlain(blinked.memo, d11.overflow_checks)

\* a call of blink_n_times' loop adds the plain count, or panics where the
\* plain recursion panics, and keeps the entries the memo had
D11CallAddsPlainCount ==
    (d11.pc = "blink" /\ d11.index < Len(d11.nums)) =>
        LET plain == D11PlainCount(d11.nums[d11.index + 1], d11.n, d11.overflow_checks)
        IN  /\ IF IsSome(plain)
               THEN d11'.pc = "blink" /\ d11'.sum = d11.sum + plain.value
               ELSE d11'.pc = "panic"
            /\ \A depth \in DOMAIN d11.memo :
                  /\ depth \in DOMAIN d11'.memo
                  /\ \A num \in DOMAIN d11.memo[depth] :
                        /\ num \in DOMAIN d11'.memo[depth]
                        /\ d11'.memo[depth][num] = d11.memo[depth][num]

\* C18: memoization does not change results: for every number and depth, on
\* any memo earlier calls of the run have left, blink_num_n_times returns the
\* count of the plain recursion (count(num, 0) = 1; count(num, d) = the sum of
\* count(s, d - 1) over next_nums(num)), and every entry stored in the memo at
\* (depth, num) is that count.
C18_MemoIsPlainRecursion ==
    /\ [][D11CallAddsPlainCount]_vars
    /\ []D11MemoEntriesArePlain
    /\ []D11MemoAgreesWithPlain

\* a second call for the same number has been answered from the memo the
\* first one filled
C18_Witness ==
    /\ d11.pc = "blink"
    /\ d11.n >= 2
    /\ d11.index >= 2
    /\ d11.nums[1] = d11.nums[2]
    /\ IsSome(D11MemoGet(d11.memo, d11.n, d11.nums[2]))

(***************************************************************************)
(* src/src/day_5.rs: topologically_sort and fix_update against the rules   *)
(***************************************************************************)

\* the rules between two pages of a set
D5RulesWithin(rules, pages) ==
    {rule \in rules : rule[1] \in pages /\ rule[2] \in pages}

\* the pairs joined by a chain of one or more rules
RECURSIVE D5Chains(_)
D5Chains(pairs) ==
    LET joined == pairs \cup {<<xy[1][1], xy[2][2]>> :
                                 xy \in {z \in pairs \X pairs : z[1][2] = z[2][1]}}
    IN  IF joined = pairs THEN pairs ELSE D5Chains(joined)

\* the rules within pages have a directed cycle
D5HasCycle(rules, pages) ==
    \E pair \in D5Chains(D5RulesWithin(rules, pages)) : pair[1] = pair[2]

\* C21: topologically_sort returns no order iff the rule graph restricted to
\* the vertex subset has a directed cycle (a cycle through a vertex outside
\* the subset does not count); otherwise it returns a sequence that has every
\* vertex of the subset exactly once and u before v for every rule u -> v
\* between two vertices of the subset.
C21_SortIffAcyclic ==
    d5.pc = "sorted" =>
        LET rules == d5.input.page_ordering_rules
            subset == d5.subgraph.vertices_subset
        IN  /\ d5.sorted = None <=> D5HasCycle(rules, subset)
            /\ IsSome(d5.sorted) =>
                  LET t == d5.sorted.value
                  IN  /\ Len(t) = Cardinality(subset)
                      /\ \A v \in subset : Cardinality({i \in DOMAIN t : t[i] = v}) = 1
                      /\ \A rule \in D5RulesWithin(rules, subset) :
                            \A i, j \in DOMAIN t :
                                (t[i] = rule[1] /\ t[j] = rule[2]) => i < j

\* an order of two or more vertices, under rules that have a cycle through
\* a page outside the subset
C21_Witness ==
    /\ d5.pc = "sorted"
    /\ IsSome(d5.sorted)
    /\ Len(d5.sorted.value) >= 2
    /\ D5HasCycle(d5.input.page_ordering_rules, D5Pages)

\* no order, for a cycle within the subset
C21_WitnessCycle ==
    /\ d5.pc = "sorted"
    /\ d5.sorted = None
    /\ Cardinality(d5.subgraph.vertices_subset) >= 2

(***************************************************************************)
(* src/src/day_12.rs: the part-A price against the regions of the grid     *)
(***************************************************************************)

D12CellsOf(g) == {<<r, c>> : r \in 1..Len(g), c \in 1..Len(g[1])}

D12Sides(cell) ==
    {<<cell[1] - 1, cell[2]>>, <<cell[1] + 1, cell[2]>>,
     <<cell[1], cell[2] - 1>>, <<cell[1], cell[2] + 1>>}

\* the maximal 4-connected set of equal-valued cells that holds the cells of set
RECURSIVE D12Grow(_, _)
D12Grow(g, set) ==
    LET more == {q \in D12CellsOf(g) \ set :
                    \E p \in set : q \in D12Sides(p) /\ g[q[1]][q[2]] = g[p[1]][p[2]]}
    IN  IF more = {} THEN set ELSE D12Grow(g, set \cup more)

D12Regions(g) == {D12Grow(g, {cell}) : cell \in D12CellsOf(g)}

\* the sides of the cells of a region that adjoin a cell of another value or
\* the boundary of the grid
D12Perimeter(g, region) ==
    Cardinality({side \in region \X (D12CellsOf(g) \cup UNION {D12Sides(p) : p \in region}) :
                    /\ side[2] \in D12Sides(side[1])
                    /\ \/ side[2] \notin D12CellsOf(g)
                       \/ g[side[2][1]][side[2][2]] # g[side[1][1]][side[1][2]]})

RECURSIVE D12SumOfPrices(_, _)
D12SumOfPrices(g, regions) ==
    IF regions = {} THEN 0
    ELSE LET region == CHOOSE x \in regions : TRUE
         IN  Cardinality(region) * D12Perimeter(g, region)
             + D12SumOfPrices(g, regions \ {region})

\* every cell lies in exactly one region
D12RegionsPartition(g) ==
    \A cell \in D12CellsOf(g) :
        Cardinality({region \in D12Regions(g) : cell \in region}) = 1

\* C22: for every grid the part-A total of calculate_total_price is the sum
\* over the regions (maximal 4-connected sets of equal-valued cells) of area
\* times perimeter, every cell being counted in the area of exactly one region.
C22_PartAIsAreaTimesPerimeter ==
    d12.pc \in {"done", "panic"} =>
        /\ d12.pc = "done"
        /\ D12RegionsPartition(d12.grid)
        /\ d12.total_price_p_1 = D12SumOfPrices(d12.grid, D12Regions(d12.grid))

\* the same on square grids only
D12SquarePartA ==
    (Len(d12.grid) = Len(d12.grid[1]) /\ d12.pc \in {"done", "panic"}) =>
        /\ d12.pc = "done"
        /\ D12RegionsPartition(d12.grid)
        /\ d12.total_price_p_1 = D12SumOfPrices(d12.grid, D12Regions(d12.grid))

(***************************************************************************)
(* src/src/day_6.rs: the candidates of part 2 and the guard's start        *)
(***************************************************************************)

\* C23: the guard's initial position is never a candidate for the additional
\* obstruction, also on maps where the guard turns on its starting cell or
\* walks through it again, so no loop is looked for with an obstruction on
\* the guard's own starting cell.
C23_StartIsNoCandidate ==
    /\ d6.pc = "walked" =>
          d6.original.guard_initial_position \notin
              potential_additional_obstruction_positions(d6.guard_states)
    /\ d6.pc \in {"loop", "done"} =>
          d6.position # Some(d6.original.guard_initial_position)

\* the same for the walks that never come back to the starting cell
D6StartLeftForGood ==
    (d6.pc = "walked"
        /\ \A k \in 2..Len(d6.guard_states) :
              d6.guard_states[k].current_position # d6.original.guard_initial_position) =>
        d6.original.guard_initial_position \notin
            potential_additional_obstruction_positions(d6.guard_states)

(***************************************************************************)
(* src/src/day_5.rs: the sequence fix_update returns and the update        *)
(***************************************************************************)

D5PagesOf(update) == {update[i] : i \in DOMAIN update}

\* C24: a sequence fix_update returns for an update is a permutation of the
\* update's pages: same length, every page of the update present, pages that
\* occur in no rule included; its middle element is the middle of a
\* reordering of the whole update.
C24_FixedIsPermutation ==
    (d5.pc = "fixed" /\ IsSome(d5.fixed)) =>
        /\ Len(d5.fixed.value) = Len(D5Update)
        /\ D5PagesOf(d5.fixed.value) = D5PagesOf(D5Update)

\* the same for the updates all of whose pages occur in some rule
D5FixedIsPermutationOfRulePages ==
    (d5.pc = "fixed" /\ IsSome(d5.fixed)
        /\ D5RulePages(d5.input.page_ordering_rules, D5Update) = D5PagesOf(D5Update)) =>
        /\ Len(d5.fixed.value) = Len(D5Update)
        /\ D5PagesOf(d5.fixed.value) = D5PagesOf(D5Update)

\* C27: the result of fix_update does not depend on the order in which the
\* hash sets hand out the next unmarked vertex or the successors of a vertex:
\* for a rule graph and an update every order gives the same outcome of
\* hamiltonian_path, the same sequence or absent in all of them.
C27_FixUpdateIsOrderIndependent ==
    d5.pc = "fixed" =>
        LET direct == D5DirectOrders(d5.input.page_ordering_rules,
                                     d5.subgraph.vertices_subset)
        IN  /\ Cardinality(direct) <= 1
            /\ d5.fixed = None <=> direct = {}
            /\ IsSome(d5.fixed) => direct = {d5.fixed.value}

\* absent, for pages that topologically_sort orders in several ways
\* depending on the order of the hash sets
C27_Witness ==
    /\ d5.pc = "fixed"
    /\ d5.fixed = None
    /\ IsSome(d5.sorted)
    /\ Cardinality(D5TopologicalOrders(d5.input.page_ordering_rules,
                                       d5.subgraph.vertices_subset)) >= 2

\* a sequence of three pages, the first vertex visited being one of three
C27_WitnessSequence ==
    /\ d5.pc = "fixed"
    /\ IsSome(d5.fixed)
    /\ Len(d5.fixed.value) = 3

(***************************************************************************)
(* src/src/day_6.rs: move_guard_until_out_of_bound                         *)
(***************************************************************************)

D6Part1Init ==
    /\ \E input \in D6ParsedInputs :
          d6 = [pc |-> "walk", input |-> input, guard_states |-> <<>>,
                guard_state |-> D6InitialState(input), count |-> None]
    /\ gm = Idle /\ d12 = Idle /\ d16 = Idle /\ d13 = Idle /\ d11 = Idle
    /\ d5 = Idle /\ d10 = Idle /\ d9 = Idle /\ d8 = Idle

\* guard_states.push(guard_state); the vector is kept up to the number of
\* (position, direction) states of the map, which holds every state of a
\* walk that leaves the grid
D6Push(guard_states, guard_state, map) ==
    IF Len(guard_states) < D6StateCount(map) THEN Append(guard_states, guard_state)
    ELSE guard_states

\* one turn of the loop of move_guard_until_out_of_bound_state_sequence
D6Part1Turn ==
    /\ d6.pc = "walk"
    /\ LET next_guard_state == GuardStateAdvance(d6.guard_state, d6.input.map)
           pushed == D6Push(d6.guard_states, d6.guard_state, d6.input.map)
       IN  IF IsSome(next_guard_state)
           THEN d6' = [d6 EXCEPT !.guard_states = pushed,
                                 !.guard_state = next_guard_state.value]
           ELSE d6' = [d6 EXCEPT !.guard_states = pushed, !.pc = "walked"]
    /\ UNCHANGED <<gm, d12, d16, d13, d11, d5, d10, d9, d8>>

\* move_guard_until_out_of_bound: the number of distinct positions
D6Part1Return ==
    /\ d6.pc = "walked"
    /\ d6' = [d6 EXCEPT !.pc = "returned",
                        !.count = Some(Cardinality({d6.guard_states[k].current_position :
                                                       k \in DOMAIN d6.guard_states}))]
    /\ UNCHANGED <<gm, d12, d16, d13, d11, d5, d10, d9, d8>>

D6Part1Next == D6Part1Turn \/ D6Part1Return

SpecDay6Part1 == D6Part1Init /\ [][D6Part1Next]_vars

\* the loop is sequential code: it keeps taking turns while it can
FairSpecDay6Part1 == SpecDay6Part1 /\ WF_vars(D6Part1Next)

\* C25: move_guard_until_out_of_bound terminates for every map and every
\* guard start: the walk always reaches a step that leaves the grid, also
\* where the guard is enclosed by obstructions or its walk cycles.
C25_Part1Terminates == <>(d6.pc = "returned")

\* it returns on the maps on which the walk by itself leaves the grid
D6Part1ReturnsIfWalkLeaves == D6WalkLeaves(d6.input) ~> (d6.pc = "returned")

(***************************************************************************)
(* src/src/day_6.rs: the candidates of part 2 against every empty cell     *)
(***************************************************************************)

D6EmptyCells(input) ==
    {p \in D6Cells(<<Len(input.map), Len(input.map[1])>>) : D6CellAt(p, input.map) = "Empty"}

\* the cells the walk enters
D6WalkCells(input) ==
    {D6WalkOf(input)[k].current_position : k \in DOMAIN D6WalkOf(input)}

\* the empty cells other than the guard's start on which an obstruction
\* makes the guard loop
D6LoopingCells(input) ==
    {p \in D6EmptyCells(input) \ {input.guard_initial_position} :
        D6WalkRevisits(D6ObstructedInput(input, p))}

\* an obstruction on an empty cell the walk never enters causes no loop
D6OffWalkCausesNoLoop ==
    d6.pc = "returned" =>
        \A p \in D6EmptyCells(d6.input) \ D6WalkCells(d6.input) :
            ~D6WalkRevisits(D6ObstructedInput(d6.input, p))

\* C26: restricting the candidates to the cells of the guard's original walk
\* loses nothing: an obstruction on an empty cell the walk never enters
\* causes no loop, and the count over the walk's cells equals the count
\* obtained by trying every empty cell other than the guard's start.
C26_WalkCellsLoseNothing ==
    d6.pc = "returned" =>
        /\ \A p \in D6EmptyCells(d6.input) \ D6WalkCells(d6.input) :
              ~D6WalkRevisits(D6ObstructedInput(d6.input, p))
        /\ d6.count = Some(Cardinality(D6LoopingCells(d6.input)))

(***************************************************************************)
(* src/src/day_16.rs: the worklist loop of calaculate_lowest_score ends    *)
(***************************************************************************)

\* the grids of at most two rows of at most four columns: they hold the
\* cycles of cells on which a cell is reached again with a greater score
D16FairInit ==
    /\ D16Init
    /\ Len(d16.input.grid) <= 2
    /\ Len(d16.input.grid[1]) <= 4

\* the loop is sequential code: it keeps taking turns while it can
FairSpecDay16 == D16FairInit /\ [][D16Next]_vars /\ WF_vars(D16Next)

\* a popped state with a score above the one recorded for its cell is
\* dropped: nothing is recorded and nothing is pushed
D16DropsWorseStates ==
    (d16.pc = "loop" /\ d16.next_positions # <<>>) =>
        LET top == Last(d16.next_positions)
        IN  (top.position \in DOMAIN d16.visited /\ d16.visited[top.position] < top.score) =>
                /\ d16'.visited = d16.visited
                /\ d16'.next_positions = Front(d16.next_positions)

\* the score recorded for a cell never increases
D16RecordedNeverIncreases ==
    \A position \in DOMAIN d16.visited :
        /\ position \in DOMAIN d16'.visited
        /\ d16'.visited[position] <= d16.visited[position]

\* every pushed state has a greater score than the state it comes from
D16PushedScoresGrow ==
    (d16.pc = "loop" /\ d16.next_positions # <<>>) =>
        \A k \in Len(d16.next_positions)..Len(d16'.next_positions) :
            d16'.next_positions[k].score > Last(d16.next_positions).score

\* C28: the worklist loop of calaculate_lowest_score terminates on every
\* grid: a popped state whose score is greater than the score recorded for its
\* cell is dropped, the recorded score of a cell never increases, and every
\* pushed state has a greater score than the state it was expanded from.
C28_WorklistTerminates ==
    /\ [][D16DropsWorseStates /\ D16RecordedNeverIncreases /\ D16PushedScoresGrow]_vars
    /\ <>(d16.pc = "returned")

\* the loop has ended on a grid of eight cells without a wall, with a score
\* recorded for every cell
C28_Witness ==
    /\ d16.pc = "returned"
    /\ Cardinality(DOMAIN d16.visited) >= 8

(***************************************************************************)
(* src/src/day_9.rs: part 2's compact_disk keeps the contents of the disk  *)
(***************************************************************************)

\* the runs of part 2
D9Part2Init == D9Init /\ d9.part = 2

D9Part2Next == D9Part2Start \/ D9Part2Turn \/ D9Part2Blocks \/ D9Checksum

\* the loop is sequential code: it keeps taking turns while it can
FairSpecDay9 == D9Part2Init /\ [][D9Part2Next]_vars /\ WF_vars(D9Part2Next)

RECURSIVE D9TotalSize(_)
D9TotalSize(fragments) ==
    IF fragments = <<>> THEN 0 ELSE Head(fragments).size + D9TotalSize(Tail(fragments))

\* the fragments of a file
D9FragmentsOfFile(fragments, id) ==
    {k \in DOMAIN fragments : fragments[k].tag = "File" /\ fragments[k].id = id}

\* the fragments hold as many blocks as the input, and every file is one
\* fragment of the size it has in the input
D9ContentsKept ==
    (d9.part = 2 /\ d9.pc \in {"loop_2", "compacted", "done"}) =>
        /\ D9TotalSize(d9.output_fragments) = D9TotalSize(d9.fragments)
        /\ \A k \in DOMAIN d9.fragments :
              d9.fragments[k].tag = "File" =>
                  \E j \in DOMAIN d9.output_fragments :
                      /\ D9FragmentsOfFile(d9.output_fragments, d9.fragments[k].id) = {j}
                      /\ d9.output_fragments[j].size = d9.fragments[k].size

\* in the blocks returned every file has the blocks it had, in one run
D9BlocksKept ==
    (d9.part = 2 /\ d9.pc \in {"compacted", "done"}) =>
        /\ Len(d9.blocks) = D9TotalSize(d9.fragments)
        /\ \A k \in DOMAIN d9.fragments :
              d9.fragments[k].tag = "File" =>
                  LET at == {i \in DOMAIN d9.blocks : d9.blocks[i] = BlockFile(d9.fragments[k].id)}
                  IN  /\ Cardinality(at) = d9.fragments[k].size
                      /\ \A i \in at, j \in at : \A between \in i..j : between \in at

\* the scan index is an index of the list it is used on
D9IdxInBounds ==
    (d9.pc = "loop_2" /\ d9.r_neg_offset < Len(d9.fragments)) =>
        (0 <= D9Idx /\ D9Idx < Len(d9.output_fragments))

\* C29: part 2's compact_disk preserves the disk contents: after every move
\* and at the end the number of blocks is that of the input and each file id
\* has as many blocks as in the input, in one contiguous run; the scan index
\* derived from the original fragment count stays in bounds, and the loop
\* terminates although Free fragments are inserted during the scan.
C29_Part2KeepsContents ==
    /\ []D9ContentsKept
    /\ []D9BlocksKept
    /\ []D9IdxInBounds
    /\ <>(d9.pc = "done")

\* part 2 has ended after two inserts of leftover Free fragments
C29_Witness ==
    /\ d9.part = 2
    /\ d9.pc = "done"
    /\ Len(d9.output_fragments) >= Len(d9.fragments) + 2

\* ------------------------------------------------------------------
\* day_8.rs: antinodes of antennas of one frequency (part 1)
\* ------------------------------------------------------------------

\* Largest number of antennas on a parsed grid.
D8MaxAntennas == 4

\* Frequencies of the parsed grids, in the key order of the BTreeMap.
D8Frequencies == <<"a", "b">>

D8GridSizes == {<<1, 3>>, <<2, 3>>, <<3, 3>>}

D8Cells(grid_size) == (0 .. grid_size[1] - 1) \X (0 .. grid_size[2] - 1)

\* parser::grid_to_input: every alphanumeric cell is entered under its
\* character; a frequency without an antenna has no entry in the map.
grid_to_input(grid_size, grid) ==
    LET present == {i \in 1 .. Len(D8Frequencies) :
                        \E cell \in DOMAIN grid : grid[cell] = D8Frequencies[i]}
    IN  [grid_size |-> grid_size,
         antennas_for_frequencies |->
             [i \in present |-> {cell \in DOMAIN grid : grid[cell] = D8Frequencies[i]}]]

D8ParsedInputs ==
    UNION {UNION {{grid_to_input(grid_size, grid) :
                        grid \in [cells -> {D8Frequencies[i] : i \in 1 .. Len(D8Frequencies)}]} :
                    cells \in {c \in SUBSET D8Cells(grid_size) :
                                    Cardinality(c) <= D8MaxAntennas}} :
            grid_size \in D8GridSizes}

pos_offset(pos_l, pos_r) == <<pos_l[1] - pos_r[1], pos_l[2] - pos_r[2]>>

\* The set holds the position when it is inside the grid and is empty
\* otherwise (the Option is flattened by the caller).
pos_checked_add(grid_size, pos, offset) ==
    LET x == pos[1] + offset[1]
        y == pos[2] + offset[2]
    IN  IF x \in 0 .. grid_size[1] - 1 /\ y \in 0 .. grid_size[2] - 1
        THEN {<<x, y>>}
        ELSE {}

pos_checked_sub(grid_size, pos, offset) ==
    pos_checked_add(grid_size, pos, <<0 - offset[1], 0 - offset[2]>>)

discover_antinodes_of_certain_frequency_p1(grid_size, antennas) ==
    UNION {LET offset == pos_offset(pair[1], pair[2])
           IN  pos_checked_add(grid_size, pair[1], offset)
                   \cup pos_checked_add(grid_size, pair[2], offset)
                   \cup pos_checked_sub(grid_size, pair[1], offset)
                   \cup pos_checked_sub(grid_size, pair[2], offset) :
           pair \in antennas \X antennas} \ antennas

D8Init ==
    /\ \E input \in D8ParsedInputs :
           d8 = [pc |-> "frequencies", input |-> input,
                 rest |-> DOMAIN input.antennas_for_frequencies,
                 antinodes |-> {}, part_1 |-> None]
    /\ gm = Idle /\ d12 = Idle /\ d16 = Idle /\ d13 = Idle /\ d6 = Idle
    /\ d11 = Idle /\ d5 = Idle /\ d10 = Idle /\ d9 = Idle

\* discover_antinodes_of_all_frequencies_p_1: one entry of the map, in key
\* order, per step; its antinodes are collected into the set.
D8Frequency ==
    /\ d8.pc = "frequencies"
    /\ d8.rest # {}
    /\ LET frequency == SetMin(d8.rest)
       IN  d8' = [d8 EXCEPT
                    !.rest = @ \ {frequency},
                    !.antinodes = @ \cup discover_antinodes_of_certain_frequency_p1(
                        d8.input.grid_size,
                        d8.input.antennas_for_frequencies[frequency])]
    /\ UNCHANGED <<gm, d12, d16, d13, d6, d11, d5, d10, d9>>

\* count_of_antinodes_p_1: the length of the collected set.
D8Count ==
    /\ d8.pc = "frequencies"
    /\ d8.rest = {}
    /\ d8' = [d8 EXCEPT !.pc = "done", !.part_1 = Some(Cardinality(d8.antinodes))]
    /\ UNCHANGED <<gm, d12, d16, d13, d6, d11, d5, d10, d9>>

D8Next == D8Frequency \/ D8Count

SpecDay8 == D8Init /\ [][D8Next]_vars

\* The in-bounds positions 2a - b of two distinct antennas a, b of one
\* frequency.
D8Antinodes(input) ==
    {p \in D8Cells(input.grid_size) :
        \E f \in DOMAIN input.antennas_for_frequencies :
            \E a, b \in input.antennas_for_frequencies[f] :
                a # b /\ p = <<2 * a[1] - b[1], 2 * a[2] - b[2]>>}

\* The same positions, without those that hold an antenna of the frequency
\* of a and b.
D8AntinodesOffOwnFrequency(input) ==
    {p \in D8Cells(input.grid_size) :
        \E f \in DOMAIN input.antennas_for_frequencies :
            /\ p \notin input.antennas_for_frequencies[f]
            /\ \E a, b \in input.antennas_for_frequencies[f] :
                   a # b /\ p = <<2 * a[1] - b[1], 2 * a[2] - b[2]>>}

\* C30: count_of_antinodes_p_1 is the number of in-bounds positions p with
\* p = 2a - b for two distinct antennas a, b of one frequency, positions
\* that hold an antenna of that frequency included.
C30_CountsEveryAntinode ==
    (d8.pc = "done") =>
        d8.part_1 = Some(Cardinality(D8Antinodes(d8.input)))

\* What the code counts: an antinode on an antenna of its own frequency is
\* removed by the set difference and is counted only when another frequency
\* produces it as well.
D8CountsAntinodesOffOwnFrequency ==
    (d8.pc = "done") =>
        d8.part_1 = Some(Cardinality(D8AntinodesOffOwnFrequency(d8.input)))

\* Three equally spaced antennas of one frequency in a row have been counted.
D8ThreeInARowCounted ==
    /\ d8.pc = "done"
    /\ \E f \in DOMAIN d8.input.antennas_for_frequencies :
           {<<0, 0>>, <<0, 1>>, <<0, 2>>} \subseteq d8.input.antennas_for_frequencies[f]

====
